---- MODULE Spec2Model ----
(***************************************************************************)
(* Model of the Doctor Who database API: the relational tables, the        *)
(* aggregation queries of QueryService, the enemy threat-level update      *)
(* route and the Doctor CRUD service.                                      *)
(***************************************************************************)
EXTENDS Integers, Sequences, FiniteSets, TLC

(***************************************************************************)
(* Bounds of the model.                                                    *)
(***************************************************************************)
NumEnemies == 2
MaxDoctorCompanionRows == 2
MaxLinkRows == 2
MaxDoctorRows == 2

(***************************************************************************)
(* Program constants.                                                      *)
(***************************************************************************)
THREAT_LEVEL_MIN == 1
THREAT_LEVEL_MAX == 10
HTTP_OK == 200
HTTP_CREATED == 201
HTTP_NO_CONTENT == 204
HTTP_BAD_REQUEST == 400
HTTP_UNAUTHORIZED == 401
HTTP_NOT_FOUND == 404
HTTP_CONFLICT == 409
HTTP_UNPROCESSABLE_ENTITY == 422
HTTP_INTERNAL_SERVER_ERROR == 500
HTTP_TOO_MANY_REQUESTS == 429
HTTP_SERVICE_UNAVAILABLE == 503

\* SQL NULL / JavaScript null in an id column (ids are auto-increment, >= 1).
NULL == 0

(***************************************************************************)
(* JavaScript values of a JSON request body.  A number is num, or          *)
(* num + 1/2 when half is TRUE, so that non-integers are values too.       *)
(***************************************************************************)
JsUndefined == [kind |-> "undefined", num |-> 0, half |-> FALSE, str |-> ""]
JsNull == [kind |-> "null", num |-> 0, half |-> FALSE, str |-> ""]
JsBool(b) == [kind |-> "bool", num |-> IF b THEN 1 ELSE 0, half |-> FALSE, str |-> ""]
JsNum(n) == [kind |-> "num", num |-> n, half |-> FALSE, str |-> ""]
JsNumHalf(n) == [kind |-> "num", num |-> n, half |-> TRUE, str |-> ""]
JsStr(s) == [kind |-> "str", num |-> 0, half |-> FALSE, str |-> s]

\* The decimal strings of the model and the integers they spell.
NumericStrings == [s \in {"0", "5", "11"} |-> CASE s = "0" -> 0 [] s = "5" -> 5 [] s = "11" -> 11]

\* JavaScript ToBoolean, as applied by the ! operator.
JsTruthy(v) ==
  CASE v.kind = "undefined" -> FALSE
    [] v.kind = "null" -> FALSE
    [] v.kind = "bool" -> v.num = 1
    [] v.kind = "num" -> ~(v.num = 0 /\ ~v.half)
    [] v.kind = "str" -> v.str # ""

\* JavaScript ToNumber: nan is TRUE for NaN, else the number is num (+ 1/2).
JsToNumber(v) ==
  CASE v.kind = "undefined" -> [nan |-> TRUE, num |-> 0, half |-> FALSE]
    [] v.kind = "null" -> [nan |-> FALSE, num |-> 0, half |-> FALSE]
    [] v.kind = "bool" -> [nan |-> FALSE, num |-> v.num, half |-> FALSE]
    [] v.kind = "num" -> [nan |-> FALSE, num |-> v.num, half |-> v.half]
    [] v.kind = "str" ->
         IF v.str = "" THEN [nan |-> FALSE, num |-> 0, half |-> FALSE]
         ELSE IF v.str \in DOMAIN NumericStrings
              THEN [nan |-> FALSE, num |-> NumericStrings[v.str], half |-> FALSE]
              ELSE [nan |-> TRUE, num |-> 0, half |-> FALSE]

\* v < k and v > k for an integer literal k: any comparison with NaN is false.
JsLess(v, k) == LET n == JsToNumber(v) IN ~n.nan /\ n.num < k
JsGreater(v, k) == LET n == JsToNumber(v) IN ~n.nan /\ (n.num > k \/ (n.num = k /\ n.half))

(***************************************************************************)
(* Path parameters: the text of an integer, an integer followed by other   *)
(* characters ("2x"), a decimal fraction ("1.5"), or text with no leading  *)
(* digits.                                                                 *)
(***************************************************************************)
PathInt(n) == [kind |-> "int", num |-> n]
PathIntJunk(n) == [kind |-> "intjunk", num |-> n]
PathFraction(n) == [kind |-> "fraction", num |-> n]
PathText == [kind |-> "text", num |-> 0]

\* parseInt: the leading integer of the text, NaN when there is none.
ParseInt(p) == IF p.kind = "text" THEN [nan |-> TRUE, num |-> 0] ELSE [nan |-> FALSE, num |-> p.num]

(***************************************************************************)
(* State.                                                                  *)
(***************************************************************************)
VARIABLES
  enemies,           \* ENEMIES: enemy_id -> threat_level
  doctors,           \* DOCTOR: doctor_id -> row
  companions,        \* COMPANIONS: companion_id -> row
  doctorCompanions,  \* DOCTOR_COMPANIONS: set of rows
  enemyEpisodes,     \* ENEMY_EPISODES: set of rows
  episodeLocations,  \* EPISODE_LOCATIONS: set of rows
  req,       \* the request last handled
  status,    \* its HTTP status
  resBody,   \* its response body
  queries,   \* the SQL statements its handler issued, in order
  nextDoctorId,  \* DOCTOR: the next AUTO_INCREMENT doctor_id
  dbObjects,     \* the views and stored procedures created in the database
  dbFault,       \* the message of the failure every statement meets, <<>> when none
  openai,        \* TRUE when the OpenAI client was set up (OPENAI_API_KEY given)
  nodeEnv,       \* process.env.NODE_ENV
  responsesSent, \* how many responses the handler of the last request sent
  calls,         \* the service calls in progress: call -> its position and locals
  fetch,         \* the fetchAPI call of the seed script
  resKeys        \* the top-level keys of the JSON object of the response

vars == <<enemies, doctors, companions, doctorCompanions, enemyEpisodes,
          episodeLocations, req, status, resBody, queries, nextDoctorId,
          dbObjects, dbFault, openai, nodeEnv, responsesSent, calls, fetch,
          resKeys>>

joinTables == <<doctors, companions, doctorCompanions, enemyEpisodes, episodeLocations>>

\* What no request changes: the database objects, the failure, the client.
environment == <<dbObjects, dbFault, openai, nodeEnv>>

\* What the HTTP routes leave alone: the calls in progress, the seed script.
background == <<calls, fetch>>

\* The request last handled and its response.
response == <<req, status, resBody, responsesSent, resKeys>>

\* res.json(value) of the routes that build their own bodies: the keys of value;
\* an array of rows has none.
JsonKeys(body) ==
  IF body.kind = "rows" THEN {}
  ELSE IF body.kind = "error" THEN {"error"} \cup (DOMAIN body \cap {"details", "codeStatus"})
  ELSE IF body.kind = "answer" THEN {"answer", "query", "model"}
  ELSE DOMAIN body \ {"kind"}

EnemyIds == 1..NumEnemies
\* The rows of the tables no request of the model changes.
DoctorIds == {1, 2}
CompanionIds == {1, 2}
EpisodeIds == {1, 2}
PlanetIds == {1}
SpeciesIds == {1}
ActorIds == {1}
LastEpisodeId == CHOOSE e \in EpisodeIds : \A f \in EpisodeIds : f <= e
FirstMissingId(ids) == CHOOSE n \in 1..(Cardinality(ids) + 1) : n \notin ids
ThreatLevels == THREAT_LEVEL_MIN..THREAT_LEVEL_MAX

NoRequest == [op |-> "none", param |-> PathText, body |-> JsUndefined]

(***************************************************************************)
(* ENEMIES.threat_level is an INT column with a CHECK of 1..10: the value  *)
(* the database stores for a bound parameter, or an error.                 *)
(***************************************************************************)
DbThreatLevelColumn(v) ==
  LET n == CASE v.kind = "num" -> IF v.half THEN (IF v.num >= 0 THEN v.num + 1 ELSE v.num) ELSE v.num
             [] v.kind = "bool" -> v.num
             [] v.kind = "str" -> IF v.str \in DOMAIN NumericStrings THEN NumericStrings[v.str] ELSE NULL
             [] OTHER -> NULL
      convertible == v.kind \in {"num", "bool"} \/ (v.kind = "str" /\ v.str \in DOMAIN NumericStrings)
  IN IF convertible /\ n >= THREAT_LEVEL_MIN /\ n <= THREAT_LEVEL_MAX
       THEN [ok |-> TRUE, value |-> n]
       ELSE [ok |-> FALSE, value |-> NULL]

\* updateEnemyThreatLevel answering with the row as it was before the UPDATE.
updateEnemyThreatLevel_StaleRow(table, enemyId, newThreatLevel) ==
  LET stored == DbThreatLevelColumn(newThreatLevel)
      after == IF enemyId \in DOMAIN table
                 THEN [table EXCEPT ![enemyId] = stored.value]
                 ELSE table
  IN IF ~stored.ok
       THEN [threw |-> TRUE, table |-> table, queries |-> <<"UPDATE ENEMIES">>,
             row |-> [kind |-> "null"]]
       ELSE [threw |-> FALSE, table |-> after,
             queries |-> <<"UPDATE ENEMIES", "SELECT ENEMIES">>,
             row |-> IF enemyId \in DOMAIN table
                       THEN [kind |-> "enemy", enemy_id |-> enemyId, threat_level |-> table[enemyId]]
                       ELSE [kind |-> "null"]]

\* QueryService.updateEnemyThreatLevel: the UPDATE, then the re-read SELECT.
\* Yields the table after the call, the statements issued and the row (or null).
updateEnemyThreatLevel(table, enemyId, newThreatLevel) ==
  LET stored == DbThreatLevelColumn(newThreatLevel)
      after == IF enemyId \in DOMAIN table
                 THEN [table EXCEPT ![enemyId] = stored.value]
                 ELSE table
  IN IF ~stored.ok
       THEN [threw |-> TRUE, table |-> table, queries |-> <<"UPDATE ENEMIES">>,
             row |-> [kind |-> "null"]]
       ELSE [threw |-> FALSE, table |-> after,
             queries |-> <<"UPDATE ENEMIES", "SELECT ENEMIES">>,
             row |-> IF enemyId \in DOMAIN after
                       THEN [kind |-> "enemy", enemy_id |-> enemyId, threat_level |-> after[enemyId]]
                       ELSE [kind |-> "null"]]

\* The route's test without its upper limit.
ThreatLevelRejected_NoUpperLimit(threat_level) ==
  ~JsTruthy(threat_level) \/ JsLess(threat_level, THREAT_LEVEL_MIN)

\* The route's test of body.threat_level.
ThreatLevelRejected(threat_level) ==
  ~JsTruthy(threat_level) \/ JsLess(threat_level, THREAT_LEVEL_MIN)
    \/ JsGreater(threat_level, THREAT_LEVEL_MAX)

\* PUT /api/queries/update/enemy/:id/threat-level
PutEnemyThreatLevel(param, threat_level) ==
  LET enemyId == ParseInt(param)
      r == updateEnemyThreatLevel(enemies, enemyId.num, threat_level)
  IN /\ req' = [op |-> "putThreatLevel", param |-> param, body |-> threat_level]
     /\ UNCHANGED <<joinTables, nextDoctorId, environment, background>>
     /\ responsesSent' = 1
     /\ IF enemyId.nan
          THEN /\ status' = HTTP_BAD_REQUEST
               /\ resBody' = [kind |-> "error", error |-> "Invalid enemy ID"]
               /\ queries' = <<>>
               /\ UNCHANGED enemies
          ELSE IF ThreatLevelRejected(threat_level)
          THEN /\ status' = HTTP_BAD_REQUEST
               /\ resBody' = [kind |-> "error", error |-> "Threat level must be between 1 and 10"]
               /\ queries' = <<>>
               /\ UNCHANGED enemies
          ELSE /\ enemies' = r.table
               /\ queries' = r.queries
               /\ IF r.threw
                    THEN /\ status' = HTTP_INTERNAL_SERVER_ERROR
                         /\ resBody' = [kind |-> "error", error |-> "database error"]
                    ELSE IF r.row.kind = "null"
                    THEN /\ status' = HTTP_NOT_FOUND
                         /\ resBody' = [kind |-> "error", error |-> "Enemy not found"]
                    ELSE /\ status' = HTTP_OK
                         /\ resBody' = r.row
     /\ resKeys' = JsonKeys(resBody')

\* The request bodies and path parameters the model sends.
ThreatBodies ==
  {JsUndefined, JsNull, JsBool(TRUE), JsBool(FALSE), JsStr(""), JsStr("abc"),
   JsStr("0"), JsStr("5"), JsStr("11"), JsNumHalf(0), JsNumHalf(5), JsNumHalf(THREAT_LEVEL_MAX)}
    \cup {JsNum(n) : n \in (THREAT_LEVEL_MIN - 1)..(THREAT_LEVEL_MAX + 1)}

EnemyParams ==
  {PathInt(n) : n \in 1..(NumEnemies + 1)} \cup {PathIntJunk(1), PathText}

(***************************************************************************)
(* QueryService.getDoctorFullDetails.  A result set is modelled as the     *)
(* sequence of its rows; text columns other than catchphrase are           *)
(* determined by their row's id and are left out.                          *)
(***************************************************************************)
RECURSIVE SetToSeq(_)
SetToSeq(S) ==
  IF S = {} THEN <<>>
  ELSE LET x == CHOOSE y \in S : TRUE IN <<x>> \o SetToSeq(S \ {x})

\* Array.prototype.map and Array.prototype.filter.
Map(s, F(_)) == [i \in 1..Len(s) |-> F(s[i])]
Filter(s, T(_)) == SelectSeq(s, T)

\* x LEFT JOIN t ON x.fk = t.id: the joined id, NULL when no row matches.
LeftJoinId(fk, ids) == IF fk \in ids THEN fk ELSE NULL

\* Doctor.findByPk: the row, or null.
NoDoctorRow ==
  [incarnation_number |-> 0, actor_id |-> NULL, catchphrase |-> JsNull,
   first_episode_id |-> NULL, last_episode_id |-> NULL]

FindDoctorByPk(table, id) ==
  IF id \in DOMAIN table
    THEN [kind |-> "doctor", doctor_id |-> id, row |-> table[id]]
    ELSE [kind |-> "null", doctor_id |-> NULL, row |-> NoDoctorRow]

\* SELECT DISTINCT ... FROM DOCTOR_COMPANIONS dc INNER JOIN COMPANIONS c
\*   LEFT JOIN SPECIES s LEFT JOIN PLANETS p WHERE dc.doctor_id = :doctorId
CompanionQuery(doctorId) ==
  SetToSeq({[companion_id |-> dc.companion_id,
             species_id |-> companions[dc.companion_id].species_id,
             companion_planet_id |->
               LeftJoinId(companions[dc.companion_id].home_planet_id, PlanetIds),
             start_episode_id |-> dc.start_episode_id,
             end_episode_id |-> dc.end_episode_id] :
            dc \in {r \in doctorCompanions :
                      r.doctor_id = doctorId /\ r.companion_id \in DOMAIN companions}})

\* The episode query joined on the start episode only.
EpisodeQuery_StartOnly(doctorId) ==
  SetToSeq({[episode_id |-> e] :
            e \in {e \in EpisodeIds :
                     \E dc \in doctorCompanions :
                       dc.doctor_id = doctorId /\ e = dc.start_episode_id}})

\* SELECT DISTINCT e.* FROM DOCTOR_COMPANIONS dc INNER JOIN EPISODES e
\*   ON (e.episode_id = dc.start_episode_id OR e.episode_id = dc.end_episode_id)
\*   WHERE dc.doctor_id = :doctorId
EpisodeQuery(doctorId) ==
  SetToSeq({[episode_id |-> e] :
            e \in {e \in EpisodeIds :
                     \E dc \in doctorCompanions :
                       /\ dc.doctor_id = doctorId
                       /\ (e = dc.start_episode_id \/ e = dc.end_episode_id)}})

\* The link queries issued for every doctor.
LinkQueriesNeeded_Always(episodeIds) == TRUE

\* if (episodeIds.length > 0)
LinkQueriesNeeded(episodeIds) == Len(episodeIds) > 0

InIds(x, episodeIds) == \E i \in 1..Len(episodeIds) : episodeIds[i] = x

\* SELECT ... FROM ENEMY_EPISODES ee INNER JOIN ENEMIES en
\*   WHERE ee.episode_id IN (episodeIds)
EnemyQuery(episodeIds) ==
  Map(SetToSeq({ee \in enemyEpisodes :
                  ee.enemy_id \in DOMAIN enemies /\ InIds(ee.episode_id, episodeIds)}),
      LAMBDA ee : [episode_id |-> ee.episode_id, enemy_id |-> ee.enemy_id,
                   threat_level |-> enemies[ee.enemy_id]])

\* SELECT ... FROM EPISODE_LOCATIONS el INNER JOIN PLANETS p
\*   WHERE el.episode_id IN (episodeIds)
PlanetQuery(episodeIds) ==
  Map(SetToSeq({el \in episodeLocations :
                  el.planet_id \in PlanetIds /\ InIds(el.episode_id, episodeIds)}),
      LAMBDA el : [episode_id |-> el.episode_id, planet_id |-> el.planet_id])

\* The home planet taken from the species column.
CompanionEntry_PlanetFromSpecies(c) ==
  [companion_id |-> c.companion_id,
   start_episode_id |-> c.start_episode_id,
   end_episode_id |-> c.end_episode_id,
   species |-> IF c.species_id # NULL
                 THEN [isNull |-> FALSE, species_id |-> c.species_id]
                 ELSE [isNull |-> TRUE, species_id |-> NULL],
   homePlanet |-> IF c.species_id # NULL
                    THEN [isNull |-> FALSE, planet_id |-> c.companion_planet_id]
                    ELSE [isNull |-> TRUE, planet_id |-> NULL]]

\* The entry of result.companions built from one companion row.
CompanionEntry(c) ==
  [companion_id |-> c.companion_id,
   start_episode_id |-> c.start_episode_id,
   end_episode_id |-> c.end_episode_id,
   species |-> IF c.species_id # NULL
                 THEN [isNull |-> FALSE, species_id |-> c.species_id]
                 ELSE [isNull |-> TRUE, species_id |-> NULL],
   homePlanet |-> IF c.companion_planet_id # NULL
                    THEN [isNull |-> FALSE, planet_id |-> c.companion_planet_id]
                    ELSE [isNull |-> TRUE, planet_id |-> NULL]]

\* The entry of an episode given every enemy row, whatever its episode.
EpisodeEntry_NoFilter(e, episodeEnemies, episodePlanets) ==
  [episode_id |-> e.episode_id,
   enemies |-> Map(episodeEnemies,
                   LAMBDA en : [enemy_id |-> en.enemy_id, threat_level |-> en.threat_level]),
   planets |-> Map(Filter(episodePlanets, LAMBDA pl : pl.episode_id = e.episode_id),
                   LAMBDA pl : [planet_id |-> pl.planet_id])]

\* The entry of result.episodes built from one episode row: its enemies and
\* planets are the rows of the two flat lists with that episode's id.
EpisodeEntry(e, episodeEnemies, episodePlanets) ==
  [episode_id |-> e.episode_id,
   enemies |-> Map(Filter(episodeEnemies, LAMBDA en : en.episode_id = e.episode_id),
                   LAMBDA en : [enemy_id |-> en.enemy_id, threat_level |-> en.threat_level]),
   planets |-> Map(Filter(episodePlanets, LAMBDA pl : pl.episode_id = e.episode_id),
                   LAMBDA pl : [planet_id |-> pl.planet_id])]

\* A missing doctor not noticed.
DoctorMissing_Never(doctor) == FALSE

\* if (!doctor) return null
DoctorMissing(doctor) == doctor.kind = "null"

\* getDoctorFullDetails(doctorId): the value returned and the queries issued.
getDoctorFullDetails(doctorId) ==
  LET doctor == FindDoctorByPk(doctors, doctorId)
      companionRows == CompanionQuery(doctorId)
      episodeRows == EpisodeQuery(doctorId)
      episodeIds == Map(episodeRows, LAMBDA r : r.episode_id)
      linked == LinkQueriesNeeded(episodeIds)
      episodeEnemies == IF linked THEN EnemyQuery(episodeIds) ELSE <<>>
      episodePlanets == IF linked THEN PlanetQuery(episodeIds) ELSE <<>>
  IN IF DoctorMissing(doctor)
       THEN [queries |-> <<"Doctor.findByPk">>,
             value |-> [kind |-> "null"]]
       ELSE [queries |-> <<"Doctor.findByPk", "SELECT companions", "SELECT episodes">>
                           \o (IF linked THEN <<"SELECT enemies", "SELECT planets">> ELSE <<>>),
             value |-> [kind |-> "doctorDetails",
                        doctor_id |-> doctor.doctor_id,
                        doctor |-> doctor.row,
                        companions |-> Map(companionRows, CompanionEntry),
                        episodes |-> Map(episodeRows,
                                         LAMBDA e : EpisodeEntry(e, episodeEnemies, episodePlanets))]]

\* The integer MySQL compares an id column with, given the text of a parameter.
MySqlNumber(p) == IF p.kind \in {"text", "fraction"} THEN NULL ELSE p.num

\* GET /api/queries/join/doctor/:id
GetJoinDoctor(param) ==
  LET r == getDoctorFullDetails(MySqlNumber(param))
  IN /\ req' = [op |-> "getJoinDoctor", param |-> param, body |-> JsUndefined]
     /\ queries' = r.queries
     /\ IF r.value.kind = "null"
          THEN /\ status' = HTTP_NOT_FOUND
               /\ resBody' = [kind |-> "error", error |-> "Doctor not found"]
          ELSE /\ status' = HTTP_OK
               /\ resBody' = r.value
     /\ UNCHANGED <<enemies, joinTables, nextDoctorId, environment, background>>
     /\ responsesSent' = 1
     /\ resKeys' = JsonKeys(resBody')

DoctorParams ==
  {PathInt(n) : n \in DoctorIds \cup {FirstMissingId(DoctorIds)}} \cup {PathIntJunk(1), PathText}

\* Episode.findByPk(episodeId): whether EPISODES has the row.
EpisodeMissing(episodeId) == episodeId \notin EpisodeIds

\* The companions included with a doctor: through DOCTOR_COMPANIONS rows whose
\* start or end episode is episodeId.
IncludedCompanions(doctorId, episodeId) ==
  SetToSeq({dc.companion_id :
              dc \in {r \in doctorCompanions :
                        /\ r.doctor_id = doctorId
                        /\ r.companion_id \in DOMAIN companions
                        /\ (r.start_episode_id = episodeId \/ r.end_episode_id = episodeId)}})

\* Doctor.findAll with the companions include, required: false: a LEFT OUTER
\* JOIN, so every doctor is a row of the result, with the companions that match.
DoctorFindAll(episodeId) ==
  Map(SetToSeq(DOMAIN doctors),
      LAMBDA d : [doctor_id |-> d, actor_id |-> doctors[d].actor_id,
                  companions |-> IncludedCompanions(d, episodeId)])

\* getEpisodeWithAllDetails(episodeId): the value returned and the queries issued.
getEpisodeWithAllDetails(episodeId) ==
  IF EpisodeMissing(episodeId)
    THEN [queries |-> <<"Episode.findByPk">>, value |-> [kind |-> "null"]]
    ELSE [queries |-> <<"Episode.findByPk", "Doctor.findAll">>,
          value |-> [kind |-> "episodeDetails", episode_id |-> episodeId,
                     doctors |-> DoctorFindAll(episodeId)]]

\* GET /api/queries/join/episode/:id
GetJoinEpisode(param) ==
  LET r == getEpisodeWithAllDetails(MySqlNumber(param))
  IN /\ req' = [op |-> "getJoinEpisode", param |-> param, body |-> JsUndefined]
     /\ queries' = r.queries
     /\ IF r.value.kind = "null"
          THEN /\ status' = HTTP_NOT_FOUND
               /\ resBody' = [kind |-> "error", error |-> "Episode not found"]
          ELSE /\ status' = HTTP_OK
               /\ resBody' = r.value
     /\ UNCHANGED <<enemies, joinTables, nextDoctorId, environment, background>>
     /\ responsesSent' = 1
     /\ resKeys' = JsonKeys(resBody')

EpisodeParams ==
  {PathInt(n) : n \in EpisodeIds \cup {FirstMissingId(EpisodeIds)}} \cup {PathIntJunk(1), PathText}

NoCalls == <<>>
NoFetch == [pc |-> "idle"]

NoResponse ==
  /\ req = NoRequest
  /\ status = 0
  /\ resBody = [kind |-> "none"]
  /\ queries = <<>>
  /\ responsesSent = 0
  /\ calls = NoCalls
  /\ fetch = NoFetch
  /\ resKeys = {}

(***************************************************************************)
(* Doctor CRUD: routes/doctors.js, the validation middleware, BaseService  *)
(* and DoctorService.                                                      *)
(***************************************************************************)
JsIsNaN(v) == JsToNumber(v).nan
JsLessEq(v, k) == LET n == JsToNumber(v) IN ~n.nan /\ (n.num < k \/ (n.num = k /\ ~n.half))

\* isNaN of the text of a path parameter.
PathIsNaN(p) == p.kind \in {"intjunk", "text"}

\* validateId: the id handed to the route, or the BadRequestError.
validateId(param) ==
  IF PathIsNaN(param) \/ ParseInt(param).nan \/ ParseInt(param).num <= 0
    THEN [ok |-> FALSE, id |-> NULL]
    ELSE [ok |-> TRUE, id |-> ParseInt(param).num]

\* The test validateDoctorData applies to incarnation_number and to actor_id.
PositiveNumberMissing(v) == ~JsTruthy(v) \/ JsIsNaN(v) \/ JsLessEq(v, 0)

\* validateDoctorData: TRUE when the body goes on to the service.
validateDoctorData(method, body) ==
  /\ (method = "POST" \/ body.incarnation_number # JsUndefined)
       => ~PositiveNumberMissing(body.incarnation_number)
  /\ (method = "POST" \/ body.actor_id # JsUndefined)
       => ~PositiveNumberMissing(body.actor_id)

\* The value of an INTEGER attribute the model layer accepts.
IsIntegerValue(v) == v.kind = "num" /\ ~v.half

\* A text attribute as stored: a missing one is NULL.
TextColumn(v) == IF v.kind = "str" THEN v ELSE JsNull

\* Doctor.create / record.update: the outcome of writing the row of id.
\* A malformed attribute is a validation error, a second row with the same
\* incarnation_number a unique-constraint error, an unknown actor a
\* foreign-key error.
WriteDoctorRow(table, id, row) ==
  IF ~IsIntegerValue(row.incarnation_number) \/ ~IsIntegerValue(row.actor_id)
    THEN [error |-> "SequelizeValidationError", table |-> table]
  ELSE IF \E other \in DOMAIN table \ {id} :
            table[other].incarnation_number = row.incarnation_number.num
    THEN [error |-> "SequelizeUniqueConstraintError", table |-> table]
  ELSE IF row.actor_id.num \notin ActorIds
    THEN [error |-> "SequelizeForeignKeyConstraintError", table |-> table]
  ELSE [error |-> "",
        table |-> [i \in DOMAIN table \cup {id} |->
                     IF i = id
                       THEN [incarnation_number |-> row.incarnation_number.num,
                             actor_id |-> row.actor_id.num,
                             catchphrase |-> TextColumn(row.catchphrase),
                             first_episode_id |-> NULL, last_episode_id |-> NULL]
                       ELSE table[i]]]

\* BaseService.getById answering with whatever row comes first.
BaseService_getById_AnyRow(table, id) ==
  IF table = <<>> \/ DOMAIN table = {}
    THEN [error |-> "NotFoundError", record |-> FindDoctorByPk(table, id)]
    ELSE [error |-> "", record |-> FindDoctorByPk(table, CHOOSE i \in DOMAIN table : TRUE)]

\* BaseService.getById: the record, or NotFoundError.
BaseService_getById(table, id) ==
  LET record == FindDoctorByPk(table, id)
  IN IF record.kind = "null"
       THEN [error |-> "NotFoundError", record |-> record]
       ELSE [error |-> "", record |-> record]

\* BaseService.create: a validation error is passed on, any other becomes
\* DatabaseError.
BaseService_create(table, id, data) ==
  LET w == WriteDoctorRow(table, id, data)
  IN [error |-> IF w.error \in {"", "SequelizeValidationError"} THEN w.error ELSE "DatabaseError",
      table |-> w.table]

\* BaseService.update writing NULL over a catchphrase the body does not name.
BaseService_update_Replace(table, id, data) ==
  LET found == BaseService_getById(table, id)
      old == found.record.row
      merged == [incarnation_number |->
                   IF data.incarnation_number = JsUndefined
                     THEN JsNum(old.incarnation_number) ELSE data.incarnation_number,
                 actor_id |->
                   IF data.actor_id = JsUndefined THEN JsNum(old.actor_id) ELSE data.actor_id,
                 catchphrase |-> data.catchphrase]
      w == WriteDoctorRow(table, id, merged)
  IN IF found.error # "" THEN [error |-> found.error, table |-> table]
     ELSE IF w.error = "" THEN [error |-> "", table |-> w.table]
     ELSE IF w.error = "SequelizeValidationError" THEN [error |-> w.error, table |-> table]
     ELSE [error |-> "DatabaseError", table |-> table]

\* BaseService.update: getById, then record.update with the fields given.
BaseService_update(table, id, data) ==
  LET found == BaseService_getById(table, id)
      old == found.record.row
      merged == [incarnation_number |->
                   IF data.incarnation_number = JsUndefined
                     THEN JsNum(old.incarnation_number) ELSE data.incarnation_number,
                 actor_id |->
                   IF data.actor_id = JsUndefined THEN JsNum(old.actor_id) ELSE data.actor_id,
                 catchphrase |->
                   IF data.catchphrase = JsUndefined THEN old.catchphrase ELSE data.catchphrase]
      w == WriteDoctorRow(table, id, merged)
      kept == [w.table EXCEPT ![id] = [@ EXCEPT !.first_episode_id = old.first_episode_id,
                                                !.last_episode_id = old.last_episode_id]]
  IN IF found.error # "" THEN [error |-> found.error, table |-> table]
     ELSE IF w.error = "" THEN [error |-> "", table |-> kept]
     ELSE IF w.error = "SequelizeValidationError" THEN [error |-> w.error, table |-> table]
     ELSE [error |-> "DatabaseError", table |-> table]

\* BaseService.delete reporting success when there is no row to delete.
BaseService_delete_Silent(table, id) ==
  [error |-> "", table |-> [i \in DOMAIN table \ {id} |-> table[i]]]

\* BaseService.delete: getById, then record.destroy.
BaseService_delete(table, id) ==
  LET found == BaseService_getById(table, id)
  IN IF found.error # "" THEN [error |-> found.error, table |-> table]
     ELSE [error |-> "", table |-> [i \in DOMAIN table \ {id} |-> table[i]]]

(***************************************************************************)
(* utils/errors.js, middleware/errorHandler.js, utils/responseHandler.js.  *)
(* An error is a record: name is err.name, appError is err instanceof      *)
(* AppError, statusCode is NULL when the error has none, errors.present is *)
(* the truth of err.errors, stack is TRUE when err.stack is defined.       *)
(***************************************************************************)
ERROR_GENERIC == <<"An unexpected error occurred">>
ERROR_VALIDATION_FAILED == <<"Validation failed">>
ERROR_DUPLICATE == <<"A record with this value already exists">>

NoErrors == [present |-> FALSE, list |-> <<>>]

AppError(message, statusCode) ==
  [name |-> "Error", appError |-> TRUE, statusCode |-> statusCode, message |-> message,
   errors |-> NoErrors, stack |-> TRUE]

NotFoundError(resource) == AppError(<<resource, "not found">>, HTTP_NOT_FOUND)

ValidationError(message) == AppError(message, HTTP_UNPROCESSABLE_ENTITY)

BadRequestError(message) == AppError(message, HTTP_BAD_REQUEST)

DatabaseError(message) == AppError(message, HTTP_INTERNAL_SERVER_ERROR)

\* An error that is not an AppError: a Sequelize error or any other Error.
OtherError(name, message, items) ==
  [name |-> name, appError |-> FALSE, statusCode |-> NULL, message |-> message,
   errors |-> [present |-> name = "SequelizeValidationError" \/ items # <<>>, list |-> items],
   stack |-> TRUE]

ErrorEnvelopeKeys == {"status", "statusCode", "message", "timestamp", "path"}

\* sendErrorResponse in every mode but development.
sendErrorResponse_StackAlways(err, url) ==
  [statusCode |-> IF err.statusCode = NULL THEN HTTP_INTERNAL_SERVER_ERROR ELSE err.statusCode,
   message |-> err.message,
   path |-> url,
   errors |-> IF err.errors.present THEN err.errors.list ELSE <<>>,
   keys |-> ErrorEnvelopeKeys
              \cup (IF err.errors.present THEN {"errors"} ELSE {})
              \cup (IF err.stack THEN {"stack"} ELSE {})]

\* sendErrorResponse: the response sent for { statusCode, message, errors, stack }.
sendErrorResponse(err, url) ==
  [statusCode |-> IF err.statusCode = NULL THEN HTTP_INTERNAL_SERVER_ERROR ELSE err.statusCode,
   message |-> err.message,
   path |-> url,
   errors |-> IF err.errors.present THEN err.errors.list ELSE <<>>,
   keys |-> ErrorEnvelopeKeys
              \cup (IF err.errors.present THEN {"errors"} ELSE {})
              \cup (IF nodeEnv = "development" /\ err.stack THEN {"stack"} ELSE {})]

\* The object literals errorHandler builds have no stack.
ErrorLiteral(statusCode, message, errors) ==
  [statusCode |-> statusCode, message |-> message, errors |-> errors, stack |-> FALSE]

\* errorHandler: the responses it sends for an error, in order.
errorHandler(err, url) ==
  IF err.name = "SequelizeValidationError"
    THEN <<sendErrorResponse(
             ErrorLiteral(HTTP_UNPROCESSABLE_ENTITY, ERROR_VALIDATION_FAILED,
                          [present |-> TRUE,
                           list |-> [i \in DOMAIN err.errors.list |->
                                       [field |-> err.errors.list[i].path,
                                        message |-> err.errors.list[i].message]]]), url)>>
  ELSE IF err.name = "SequelizeUniqueConstraintError"
    THEN <<sendErrorResponse(ErrorLiteral(HTTP_CONFLICT, ERROR_DUPLICATE, NoErrors), url)>>
  ELSE IF err.appError
    THEN <<sendErrorResponse(err, url)>>
  ELSE <<sendErrorResponse(
           ErrorLiteral(HTTP_INTERNAL_SERVER_ERROR,
                        IF nodeEnv = "production" THEN ERROR_GENERIC ELSE err.message,
                        NoErrors), url)>>

\* sendSuccess: the keys of { status: 'success', data } and its optional message.
sendSuccess(statusCode, message) ==
  [statusCode |-> statusCode,
   keys |-> {"status", "data"} \cup (IF message # "" THEN {"message"} ELSE {})]

\* The error a Doctor route hands to errorHandler, by the class that was thrown.
ThrownError(error) ==
  CASE error = "ValidationError" -> ValidationError(<<"Valid incarnation_number is required">>)
    [] error = "BadRequestError" -> BadRequestError(<<"Invalid id parameter">>)
    [] error = "NotFoundError" -> NotFoundError("Doctor")
    [] error = "DatabaseError" -> DatabaseError(<<"Failed to fetch Doctor">>)
    [] error = "SequelizeValidationError" ->
         OtherError(error, <<"Validation error">>,
                    <<[path |-> "incarnation_number", message |-> "must be an integer"]>>)
    [] OTHER -> OtherError(error, <<"Validation error">>, <<>>)

\* The keys of the response of a Doctor route: errorHandler's or sendSuccess's.
DoctorRouteKeys(body, message) ==
  IF body.kind = "error"
    THEN errorHandler(ThrownError(body.error), "/api/doctors")[1].keys
    ELSE sendSuccess(HTTP_OK, message).keys

\* errorHandler: the status of the response to an error.
ErrorStatus(error) ==
  CASE error = "SequelizeValidationError" -> HTTP_UNPROCESSABLE_ENTITY
    [] error = "ValidationError" -> HTTP_UNPROCESSABLE_ENTITY
    [] error = "SequelizeUniqueConstraintError" -> HTTP_CONFLICT
    [] error = "BadRequestError" -> HTTP_BAD_REQUEST
    [] error = "NotFoundError" -> HTTP_NOT_FOUND
    [] OTHER -> HTTP_INTERNAL_SERVER_ERROR

SendError(error) ==
  /\ status' = ErrorStatus(error)
  /\ resBody' = [kind |-> "error", error |-> error]

\* POST /api/doctors
PostDoctor(body) ==
  LET r == BaseService_create(doctors, nextDoctorId, body)
  IN /\ nextDoctorId <= MaxDoctorRows
     /\ req' = [op |-> "postDoctor", param |-> PathText, body |-> body]
     /\ queries' = IF validateDoctorData("POST", body) THEN <<"Doctor.create">> ELSE <<>>
     /\ IF ~validateDoctorData("POST", body)
          THEN /\ SendError("ValidationError")
               /\ UNCHANGED <<doctors, nextDoctorId>>
          ELSE IF r.error # ""
          THEN /\ SendError(r.error)
               /\ UNCHANGED <<doctors, nextDoctorId>>
          ELSE /\ doctors' = r.table
               /\ nextDoctorId' = nextDoctorId + 1
               /\ status' = HTTP_CREATED
               /\ resBody' = [kind |-> "created", doctor_id |-> nextDoctorId, data |-> body]
     /\ UNCHANGED <<enemies, companions, doctorCompanions, enemyEpisodes, episodeLocations,
                    environment, background>>
     /\ responsesSent' = 1
     /\ resKeys' = DoctorRouteKeys(resBody', "Resource created successfully")

\* GET /api/doctors/:id
GetDoctor(param) ==
  LET v == validateId(param)
      r == BaseService_getById(doctors, v.id)
  IN /\ req' = [op |-> "getDoctor", param |-> param, body |-> JsUndefined]
     /\ queries' = IF v.ok THEN <<"Doctor.findByPk">> ELSE <<>>
     /\ IF ~v.ok THEN SendError("BadRequestError")
        ELSE IF r.error # "" THEN SendError(r.error)
        ELSE /\ status' = HTTP_OK
             /\ resBody' = r.record
     /\ UNCHANGED <<enemies, joinTables, nextDoctorId, environment, background>>
     /\ responsesSent' = 1
     /\ resKeys' = DoctorRouteKeys(resBody', "")

\* PUT /api/doctors/:id
PutDoctor(param, body) ==
  LET v == validateId(param)
      r == BaseService_update(doctors, v.id, body)
  IN /\ req' = [op |-> "putDoctor", param |-> param, body |-> body]
     /\ queries' = IF ~v.ok \/ ~validateDoctorData("PUT", body) THEN <<>>
                   ELSE IF r.error = "NotFoundError" THEN <<"Doctor.findByPk">>
                   ELSE <<"Doctor.findByPk", "record.update">>
     /\ IF ~v.ok
          THEN SendError("BadRequestError") /\ UNCHANGED doctors
        ELSE IF ~validateDoctorData("PUT", body)
          THEN SendError("ValidationError") /\ UNCHANGED doctors
        ELSE IF r.error # ""
          THEN SendError(r.error) /\ UNCHANGED doctors
        ELSE /\ doctors' = r.table
             /\ status' = HTTP_OK
             /\ resBody' = FindDoctorByPk(r.table, v.id)
     /\ UNCHANGED <<enemies, companions, doctorCompanions, enemyEpisodes, episodeLocations,
                    nextDoctorId, environment, background>>
     /\ responsesSent' = 1
     /\ resKeys' = DoctorRouteKeys(resBody', "Resource updated successfully")

\* DELETE /api/doctors/:id
DeleteDoctor(param) ==
  LET v == validateId(param)
      r == BaseService_delete(doctors, v.id)
  IN /\ req' = [op |-> "deleteDoctor", param |-> param, body |-> JsUndefined]
     /\ queries' = IF ~v.ok THEN <<>>
                   ELSE IF r.error = "NotFoundError" THEN <<"Doctor.findByPk">>
                   ELSE <<"Doctor.findByPk", "record.destroy">>
     /\ IF ~v.ok
          THEN SendError("BadRequestError") /\ UNCHANGED doctors
        ELSE IF r.error # ""
          THEN SendError(r.error) /\ UNCHANGED doctors
        ELSE /\ doctors' = r.table
             /\ status' = HTTP_OK
             /\ resBody' = [kind |-> "deleted"]
     /\ UNCHANGED <<enemies, companions, doctorCompanions, enemyEpisodes, episodeLocations,
                    nextDoctorId, environment, background>>
     /\ responsesSent' = 1
     /\ resKeys' = DoctorRouteKeys(resBody', "Resource deleted successfully")

\* The bodies and path parameters the model sends.
DoctorBodies ==
  [incarnation_number : {JsUndefined, JsNum(-1), JsNum(0), JsNum(1), JsNum(2), JsNumHalf(1),
                         JsStr("abc"), JsStr("5")},
   actor_id : {JsUndefined, JsNum(1), JsNumHalf(1), JsNum(FirstMissingId(ActorIds))},
   catchphrase : {JsUndefined, JsStr("Hmm?")}]

\* The bodies of the updates.
DoctorUpdateBodies ==
  [incarnation_number : {JsUndefined, JsNum(0), JsNum(1), JsNum(2)},
   actor_id : {JsUndefined, JsNum(1)},
   catchphrase : {JsUndefined, JsStr("Hmm?"), JsStr("Fantastic!")}]

DoctorIdParams ==
  {PathInt(n) : n \in -1..MaxDoctorRows} \cup {PathIntJunk(1), PathFraction(1), PathText}

(***************************************************************************)
(* The views and stored procedures of database_objects.sql and the routes  *)
(* of /api/queries that read them.  An error message is the sequence of    *)
(* its fragments, so that String.prototype.includes is a search.           *)
(***************************************************************************)
DoctorSummaryView == "doctor_episode_summary"
EnemySummaryView == "enemy_appearance_summary"
EnemiesProcedure == "GetEnemiesByThreatLevel"
EpisodesProcedure == "GetEpisodesForDoctor"
DatabaseObjects == {DoctorSummaryView, EnemySummaryView, EnemiesProcedure, EpisodesProcedure}

NoFault == <<>>
OtherFaults == {<<"connect ECONNREFUSED">>, <<"Access denied for user">>}

\* error.message.includes(fragment)
Includes(message, fragment) == \E i \in 1..Len(message) : message[i] = fragment

\* The message MySQL gives for a SELECT from a view that was not created.
NoSuchTableMessage(name) == <<"Table", name, "doesn't exist">>

\* The episodes a doctor's row of doctor_episode_summary counts.
SummaryEpisodes(d) ==
  {e \in EpisodeIds :
     \/ e = doctors[d].first_episode_id
     \/ e = doctors[d].last_episode_id
     \/ \E dc \in doctorCompanions :
          dc.doctor_id = d /\ (e = dc.start_episode_id \/ e = dc.end_episode_id)}

\* SELECT * FROM doctor_episode_summary
DoctorEpisodeSummaryRows ==
  SetToSeq({[doctor_id |-> d,
             incarnation_number |-> doctors[d].incarnation_number,
             total_episodes |-> Cardinality(SummaryEpisodes(d)),
             total_companions |->
               Cardinality({dc.companion_id : dc \in {r \in doctorCompanions : r.doctor_id = d}}),
             total_enemies |->
               Cardinality({ee.enemy_id :
                              ee \in {r \in enemyEpisodes : r.episode_id \in SummaryEpisodes(d)}})] :
            d \in DOMAIN doctors})

\* SELECT * FROM enemy_appearance_summary
EnemyAppearanceSummaryRows ==
  SetToSeq({[enemy_id |-> en,
             threat_level |-> enemies[en],
             episode_count |->
               Cardinality({ee.episode_id : ee \in {r \in enemyEpisodes : r.enemy_id = en}})] :
            en \in DOMAIN enemies})

\* sequelize.query on a view: the rows, or the error thrown.
SelectFromView(name, rows) ==
  IF dbFault # NoFault THEN [threw |-> TRUE, message |-> dbFault, rows |-> <<>>]
  ELSE IF name \notin dbObjects
    THEN [threw |-> TRUE, message |-> NoSuchTableMessage(name), rows |-> <<>>]
  ELSE [threw |-> FALSE, message |-> <<>>, rows |-> rows]

\* The error the view queries throw in place of "... doesn't exist".
ViewMissingMessage(name) ==
  <<"VIEW", name, "does not exist.", "Please run:", "npm run db:objects">>

\* queryDoctorEpisodeSummary passing every error on as it is.
queryDoctorEpisodeSummary_Rethrow == SelectFromView(DoctorSummaryView, DoctorEpisodeSummaryRows)

\* QueryService.queryDoctorEpisodeSummary
queryDoctorEpisodeSummary ==
  LET r == SelectFromView(DoctorSummaryView, DoctorEpisodeSummaryRows)
  IN IF r.threw /\ Includes(r.message, "doesn't exist")
       THEN [r EXCEPT !.message = ViewMissingMessage(DoctorSummaryView)]
       ELSE r

\* QueryService.queryEnemyAppearanceSummary
queryEnemyAppearanceSummary ==
  LET r == SelectFromView(EnemySummaryView, EnemyAppearanceSummaryRows)
  IN IF r.threw /\ Includes(r.message, "doesn't exist")
       THEN [r EXCEPT !.message = ViewMissingMessage(EnemySummaryView)]
       ELSE r

\* res.json(results), or res.status(500).json({ error: error.message })
SendRowsOr500(r) ==
  IF r.threw
    THEN /\ status' = HTTP_INTERNAL_SERVER_ERROR
         /\ resBody' = [kind |-> "error", message |-> r.message]
    ELSE /\ status' = HTTP_OK
         /\ resBody' = [kind |-> "rows", rows |-> r.rows]

\* GET /api/queries/view/doctor-summary
GetDoctorSummary ==
  /\ req' = [op |-> "getDoctorSummary", param |-> PathText, body |-> JsUndefined]
  /\ queries' = <<"SELECT doctor_episode_summary">>
  /\ SendRowsOr500(queryDoctorEpisodeSummary)
  /\ UNCHANGED <<enemies, joinTables, nextDoctorId, environment, background>>
  /\ responsesSent' = 1
  /\ resKeys' = JsonKeys(resBody')

\* GET /api/queries/view/enemy-summary
GetEnemySummary ==
  /\ req' = [op |-> "getEnemySummary", param |-> PathText, body |-> JsUndefined]
  /\ queries' = <<"SELECT enemy_appearance_summary">>
  /\ SendRowsOr500(queryEnemyAppearanceSummary)
  /\ UNCHANGED <<enemies, joinTables, nextDoctorId, environment, background>>
  /\ responsesSent' = 1
  /\ resKeys' = JsonKeys(resBody')

\* The message MySQL gives for a CALL of a procedure that was not created.
NoSuchProcedureMessage(name) == <<"PROCEDURE", name, "does not exist">>

\* The orders a result set can come in under an ORDER BY: every arrangement
\* of the rows in which no row comes before one that sorts ahead of it.
OrderedBy(rows, Before(_, _)) ==
  {f \in [1..Cardinality(rows) -> rows] :
     /\ \A i, j \in 1..Cardinality(rows) : i # j => f[i] # f[j]
     /\ \A i, j \in 1..Cardinality(rows) : i < j => ~Before(f[j], f[i])}

\* sequelize.query('CALL ...'): the rows given, or the error thrown.
CallProcedure(name, rows) ==
  IF dbFault # NoFault THEN [threw |-> TRUE, message |-> dbFault, rows |-> <<>>]
  ELSE IF name \notin dbObjects
    THEN [threw |-> TRUE, message |-> NoSuchProcedureMessage(name), rows |-> <<>>]
  ELSE [threw |-> FALSE, message |-> <<>>, rows |-> rows]

\* GetEnemiesByThreatLevel(min_threat_level): WHERE e.threat_level >=
\* min_threat_level GROUP BY e.enemy_id ... ORDER BY e.threat_level DESC
GetEnemiesByThreatLevel(min_threat_level) ==
  OrderedBy({[enemy_id |-> en,
              threat_level |-> enemies[en],
              episode_appearances |->
                Cardinality({ee.episode_id : ee \in {r \in enemyEpisodes : r.enemy_id = en}})] :
             en \in {e \in DOMAIN enemies : enemies[e] >= min_threat_level}},
            LAMBDA a, b : a.threat_level > b.threat_level)

\* The error getEnemiesByThreatLevel throws in place of "... doesn't exist"
\* and "Unknown procedure ...".
ProcedureMissingMessage(name) ==
  <<"STORED PROCEDURE", name, "does not exist.", "Please run:", "npm run db:objects">>

\* QueryService.getEnemiesByThreatLevel, given the rows the procedure selects.
getEnemiesByThreatLevel(rows) ==
  LET r == CallProcedure(EnemiesProcedure, rows)
  IN IF r.threw /\ (Includes(r.message, "doesn't exist") \/ Includes(r.message, "Unknown procedure"))
       THEN [r EXCEPT !.message = ProcedureMissingMessage(EnemiesProcedure)]
       ELSE r

\* if (isNaN(threatLevel) || threatLevel < 1 || threatLevel > 10)
ProcedureLevelRejected(threatLevel) ==
  threatLevel.nan \/ threatLevel.num < THREAT_LEVEL_MIN \/ threatLevel.num > THREAT_LEVEL_MAX

\* GET /api/queries/procedure/enemies/:threatLevel
GetProcedureEnemies(param) ==
  LET threatLevel == ParseInt(param)
  IN /\ req' = [op |-> "getProcedureEnemies", param |-> param, body |-> JsUndefined]
     /\ IF ProcedureLevelRejected(threatLevel)
          THEN /\ queries' = <<>>
               /\ status' = HTTP_BAD_REQUEST
               /\ resBody' = [kind |-> "error",
                              message |-> <<"Threat level must be between 1 and 10">>]
          ELSE /\ queries' = <<"CALL GetEnemiesByThreatLevel">>
               /\ \E rows \in GetEnemiesByThreatLevel(threatLevel.num) :
                    SendRowsOr500(getEnemiesByThreatLevel(rows))
     /\ UNCHANGED <<enemies, joinTables, nextDoctorId, environment, background>>
     /\ responsesSent' = 1
     /\ resKeys' = JsonKeys(resBody')

\* EPISODES.air_date: a later episode of the model was aired earlier.
AirDate(e) == LastEpisodeId + 1 - e

\* GetEpisodesForDoctor(doctor_incarnation): FROM DOCTOR doc INNER JOIN
\* DOCTOR_COMPANIONS dc INNER JOIN EPISODES e ON e.episode_id =
\* dc.start_episode_id OR dc.end_episode_id OR doc.first_episode_id OR
\* doc.last_episode_id WHERE doc.incarnation_number = doctor_incarnation
\* GROUP BY e.episode_id ... ORDER BY e.air_date
GetEpisodesForDoctor(doctor_incarnation) ==
  OrderedBy({[episode_id |-> e, air_date |-> AirDate(e)] :
             e \in {e \in EpisodeIds :
                      \E doc \in DOMAIN doctors, dc \in doctorCompanions :
                        /\ doctors[doc].incarnation_number = doctor_incarnation
                        /\ dc.doctor_id = doc
                        /\ \/ e = dc.start_episode_id
                           \/ e = dc.end_episode_id
                           \/ e = doctors[doc].first_episode_id
                           \/ e = doctors[doc].last_episode_id}},
            LAMBDA a, b : a.air_date < b.air_date)

\* QueryService.getEpisodesForDoctor, given the rows the procedure selects.
getEpisodesForDoctor(rows) == CallProcedure(EpisodesProcedure, rows)

\* GET /api/queries/procedure/doctor/:incarnation
GetProcedureDoctor(param) ==
  LET incarnation == ParseInt(param)
  IN /\ req' = [op |-> "getProcedureDoctor", param |-> param, body |-> JsUndefined]
     /\ IF incarnation.nan
          THEN /\ queries' = <<>>
               /\ status' = HTTP_BAD_REQUEST
               /\ resBody' = [kind |-> "error", message |-> <<"Invalid incarnation number">>]
          ELSE /\ queries' = <<"CALL GetEpisodesForDoctor">>
               /\ \E rows \in GetEpisodesForDoctor(incarnation.num) :
                    SendRowsOr500(getEpisodesForDoctor(rows))
     /\ UNCHANGED <<enemies, joinTables, nextDoctorId, environment, background>>
     /\ responsesSent' = 1
     /\ resKeys' = JsonKeys(resBody')

\* The path parameters the model sends to the procedure routes.
ThreatLevelParams ==
  {PathInt(n) : n \in (THREAT_LEVEL_MIN - 1)..(THREAT_LEVEL_MAX + 1)}
    \cup {PathIntJunk(THREAT_LEVEL_MIN), PathFraction(THREAT_LEVEL_MIN), PathText}

IncarnationParams ==
  {PathInt(n) : n \in DoctorIds \cup {FirstMissingId(DoctorIds)}} \cup {PathIntJunk(1), PathText}

(***************************************************************************)
(* POST /api/llm/query (routes/llm.js).  The outcome of the outbound       *)
(* completion call is an input of the request.                             *)
(***************************************************************************)
\* What openai.chat.completions.create can do: answer, fail with the
\* response of the upstream service (its status and, when the response body
\* has one, its error message), or fail with no response at all.
NoUpstreamResponse == NULL
CompletionOutcomes ==
  {[threw |-> FALSE, responseStatus |-> NoUpstreamResponse, message |-> <<>>,
    upstreamMessage |-> <<>>],
   [threw |-> TRUE, responseStatus |-> HTTP_TOO_MANY_REQUESTS,
    message |-> <<"Request failed with status code 429">>,
    upstreamMessage |-> <<"You exceeded your current quota">>],
   [threw |-> TRUE, responseStatus |-> HTTP_TOO_MANY_REQUESTS,
    message |-> <<"Request failed with status code 429">>, upstreamMessage |-> <<>>],
   [threw |-> TRUE, responseStatus |-> HTTP_UNAUTHORIZED,
    message |-> <<"Request failed with status code 401">>,
    upstreamMessage |-> <<"Incorrect API key provided">>],
   [threw |-> TRUE, responseStatus |-> HTTP_INTERNAL_SERVER_ERROR,
    message |-> <<"Request failed with status code 500">>,
    upstreamMessage |-> <<"The server had an error">>],
   [threw |-> TRUE, responseStatus |-> NoUpstreamResponse, message |-> <<"socket hang up">>,
    upstreamMessage |-> <<>>],
   [threw |-> TRUE, responseStatus |-> NoUpstreamResponse, message |-> <<>>,
    upstreamMessage |-> <<>>]}

\* The client used although it was never set up.
LlmNotConfigured_Never == FALSE

\* if (!openai)
LlmNotConfigured == ~openai

\* if (!query)
LlmQueryMissing(query) == ~JsTruthy(query)

\* The three sample reads and the outbound call, in the order of the handler.
LlmSampleReads == <<"Doctor.findAll", "Episode.findAll", "Enemy.findAll">>
LlmCompletionCall == "openai.chat.completions.create"

\* a || b on two messages: the first unless it is missing or empty.
OrElse(a, b) == IF a = <<>> THEN b ELSE a

\* The three responses of the catch block.
LlmQuotaResponse(error) ==
  [status |-> HTTP_TOO_MANY_REQUESTS,
   body |-> [kind |-> "error",
             message |-> OrElse(error.upstreamMessage,
                                <<"API quota exceeded.",
                                  "Please check your OpenAI billing and plan details.">>),
             details |-> <<"You need to set up billing at platform.openai.com/account/billing">>]]

LlmInvalidKeyResponse ==
  [status |-> HTTP_UNAUTHORIZED,
   body |-> [kind |-> "error",
             message |-> <<"Invalid API key.",
                           "Please check your OPENAI_API_KEY in the .env file.">>,
             details |-> <<"Make sure the API key starts with \"sk-\" and is valid.">>]]

LlmFailureResponse(error) ==
  [status |-> HTTP_INTERNAL_SERVER_ERROR,
   body |-> [kind |-> "error",
             message |-> OrElse(error.message,
                                <<"An error occurred while processing your query.">>),
             details |-> OrElse(error.upstreamMessage,
                                <<"Please check your API key and billing status.">>)]]

\* The catch block without its return statements.
LlmCatch_NoReturn(error) ==
  (IF error.responseStatus = HTTP_TOO_MANY_REQUESTS THEN <<LlmQuotaResponse(error)>> ELSE <<>>)
    \o (IF error.responseStatus = HTTP_UNAUTHORIZED THEN <<LlmInvalidKeyResponse>> ELSE <<>>)
    \o <<LlmFailureResponse(error)>>

\* The catch block of the handler: the responses it sends for an error.
LlmCatch(error) ==
  IF error.responseStatus = HTTP_TOO_MANY_REQUESTS THEN <<LlmQuotaResponse(error)>>
  ELSE IF error.responseStatus = HTTP_UNAUTHORIZED THEN <<LlmInvalidKeyResponse>>
  ELSE <<LlmFailureResponse(error)>>

\* An error of the database met by the sample reads.
LlmDatabaseError ==
  [threw |-> TRUE, responseStatus |-> NoUpstreamResponse, message |-> dbFault,
   upstreamMessage |-> <<>>]

\* The handler: the calls it makes and the responses it sends.
LlmHandler(body, completion) ==
  IF LlmNotConfigured
    THEN [queries |-> <<>>,
          responses |-> <<[status |-> HTTP_SERVICE_UNAVAILABLE,
                           body |-> [kind |-> "error",
                                     message |-> <<"LLM service not configured.",
                                                   "Please set OPENAI_API_KEY in .env file.">>]]>>]
  ELSE IF LlmQueryMissing(body.query)
    THEN [queries |-> <<>>,
          responses |-> <<[status |-> HTTP_BAD_REQUEST,
                           body |-> [kind |-> "error", message |-> <<"Query is required">>]]>>]
  ELSE IF dbFault # NoFault
    THEN [queries |-> <<LlmSampleReads[1]>>, responses |-> LlmCatch(LlmDatabaseError)]
  ELSE IF completion.threw
    THEN [queries |-> LlmSampleReads \o <<LlmCompletionCall>>, responses |-> LlmCatch(completion)]
  ELSE [queries |-> LlmSampleReads \o <<LlmCompletionCall>>,
        responses |-> <<[status |-> HTTP_OK,
                         body |-> [kind |-> "answer", query |-> body.query,
                                   model |-> "gpt-3.5-turbo"]]>>]

\* router.post('/query'): the client sees the first response sent.
PostLlmQuery(body, completion) ==
  LET h == LlmHandler(body, completion)
  IN /\ req' = [op |-> "postLlmQuery", param |-> PathText, body |-> body,
                completion |-> completion]
     /\ queries' = h.queries
     /\ status' = h.responses[1].status
     /\ resBody' = h.responses[1].body
     /\ responsesSent' = Len(h.responses)
     /\ resKeys' = JsonKeys(h.responses[1].body)
     /\ UNCHANGED <<enemies, joinTables, nextDoctorId, environment, background>>

\* The bodies the model sends.
LlmBodies ==
  [query : {JsUndefined, JsNull, JsStr(""), JsStr("Who is the Doctor?"), JsNum(0), JsNum(1)}]

(***************************************************************************)
(* The databases the model starts from.                                    *)
(***************************************************************************)
RECURSIVE SubsetsUpTo(_, _)
SubsetsUpTo(U, k) ==
  IF k = 0 THEN {{}}
  ELSE LET S == SubsetsUpTo(U, k - 1) IN S \cup {s \cup {x} : s \in S, x \in U}

DoctorRow(n, c, first, last) ==
  [incarnation_number |-> n, actor_id |-> 1, catchphrase |-> c,
   first_episode_id |-> first, last_episode_id |-> last]

\* A doctor-companion row: the end episode may be NULL (still travelling).
DoctorCompanionRows ==
  [doctor_id : DoctorIds, companion_id : CompanionIds,
   start_episode_id : EpisodeIds, end_episode_id : EpisodeIds \cup {NULL}]

EnemyEpisodeRows == [enemy_id : EnemyIds, episode_id : EpisodeIds, role : {"Main Antagonist"}]
EpisodeLocationRows == [episode_id : EpisodeIds, planet_id : PlanetIds, visit_order : {1}]

CompanionRowsOf == [species_id : SpeciesIds \cup {NULL}, home_planet_id : PlanetIds \cup {NULL}]

SeedEnemies == [e \in EnemyIds |-> THREAT_LEVEL_MIN + ((e + 4) % THREAT_LEVEL_MAX)]
SeedCompanions == [c \in CompanionIds |-> [species_id |-> 1, home_planet_id |-> 1]]

\* Doctor 1 has a first and a last episode, the other doctors have none.
SeedDoctors ==
  [d \in DoctorIds |->
     DoctorRow(d, JsStr("Fantastic!"), IF d = 1 THEN 1 ELSE NULL, IF d = 1 THEN LastEpisodeId ELSE NULL)]

\* The database objects are created, no statement fails, the client is set up.
EnvironmentReady ==
  /\ dbObjects = DatabaseObjects
  /\ dbFault = NoFault
  /\ openai = TRUE
  /\ nodeEnv = "production"

\* Every doctor-companion table of the bound with every choice of the
\* companions' optional relations; every enemy and planet is in every episode.
InitJoinCompanions ==
  /\ enemies = SeedEnemies
  /\ doctors = SeedDoctors
  /\ nextDoctorId = Cardinality(DoctorIds) + 1
  /\ EnvironmentReady
  /\ companions \in [CompanionIds -> CompanionRowsOf]
  /\ doctorCompanions \in SubsetsUpTo(DoctorCompanionRows, MaxDoctorCompanionRows)
  /\ enemyEpisodes = EnemyEpisodeRows
  /\ episodeLocations = EpisodeLocationRows
  /\ NoResponse

\* Every link table of the bound with the doctor-companion tables of companion 1.
InitJoinLinks ==
  /\ enemies = SeedEnemies
  /\ doctors = SeedDoctors
  /\ nextDoctorId = Cardinality(DoctorIds) + 1
  /\ EnvironmentReady
  /\ companions = SeedCompanions
  /\ doctorCompanions \in
       SubsetsUpTo({r \in DoctorCompanionRows : r.companion_id = 1}, MaxDoctorCompanionRows)
  /\ enemyEpisodes \in SubsetsUpTo(EnemyEpisodeRows, MaxLinkRows)
  /\ episodeLocations \in SubsetsUpTo(EpisodeLocationRows, 1)
  /\ NoResponse

InitJoin == InitJoinCompanions \/ InitJoinLinks

NextJoin ==
  \/ \E p \in DoctorParams : GetJoinDoctor(p)
  \/ \E p \in EpisodeParams : GetJoinEpisode(p)

SpecJoin == InitJoin /\ [][NextJoin]_vars

InitThreat ==
  /\ enemies \in [EnemyIds -> ThreatLevels]
  /\ doctors = SeedDoctors
  /\ nextDoctorId = Cardinality(DoctorIds) + 1
  /\ EnvironmentReady
  /\ companions = SeedCompanions
  /\ doctorCompanions = {}
  /\ enemyEpisodes = EnemyEpisodeRows
  /\ episodeLocations = EpisodeLocationRows
  /\ NoResponse

NextThreat == \E p \in EnemyParams, b \in ThreatBodies : PutEnemyThreatLevel(p, b)

SpecThreat == InitThreat /\ [][NextThreat]_vars

\* The Doctor CRUD routes over a DOCTOR table that starts empty.
InitCrud ==
  /\ enemies = SeedEnemies
  /\ doctors = [d \in {} |-> NoDoctorRow]
  /\ nextDoctorId = 1
  /\ EnvironmentReady
  /\ companions = SeedCompanions
  /\ doctorCompanions = {}
  /\ enemyEpisodes = EnemyEpisodeRows
  /\ episodeLocations = EpisodeLocationRows
  /\ NoResponse

NextCrud ==
  \/ \E b \in DoctorBodies : PostDoctor(b)
  \/ \E p \in DoctorIdParams : GetDoctor(p)
  \/ \E p \in DoctorIdParams, b \in DoctorUpdateBodies : PutDoctor(p, b)
  \/ \E p \in DoctorIdParams : DeleteDoctor(p)

SpecCrud == InitCrud /\ [][NextCrud]_vars

\* The query routes over every choice of the created database objects and
\* of the failure.
InitQueriesObjects ==
  /\ enemies = SeedEnemies
  /\ doctors = SeedDoctors
  /\ nextDoctorId = Cardinality(DoctorIds) + 1
  /\ companions = SeedCompanions
  /\ doctorCompanions = {}
  /\ enemyEpisodes = EnemyEpisodeRows
  /\ episodeLocations = EpisodeLocationRows
  /\ dbObjects \in SUBSET DatabaseObjects
  /\ dbFault \in {NoFault} \cup OtherFaults
  /\ openai = TRUE
  /\ nodeEnv = "production"
  /\ NoResponse

\* The query routes over every table of enemies.
InitQueriesEnemies ==
  /\ enemies \in [EnemyIds -> ThreatLevels]
  /\ doctors = SeedDoctors
  /\ nextDoctorId = Cardinality(DoctorIds) + 1
  /\ EnvironmentReady
  /\ companions = SeedCompanions
  /\ doctorCompanions = {}
  /\ enemyEpisodes = EnemyEpisodeRows
  /\ episodeLocations = EpisodeLocationRows
  /\ NoResponse

\* The query routes over the doctor-companion tables of companion 1.
InitQueriesDoctors ==
  /\ enemies = SeedEnemies
  /\ doctors = SeedDoctors
  /\ nextDoctorId = Cardinality(DoctorIds) + 1
  /\ EnvironmentReady
  /\ companions = SeedCompanions
  /\ doctorCompanions \in
       SubsetsUpTo({r \in DoctorCompanionRows : r.companion_id = 1}, MaxDoctorCompanionRows)
  /\ enemyEpisodes = EnemyEpisodeRows
  /\ episodeLocations = EpisodeLocationRows
  /\ NoResponse

InitQueries == InitQueriesObjects \/ InitQueriesEnemies \/ InitQueriesDoctors

NextQueries ==
  \/ GetDoctorSummary
  \/ GetEnemySummary
  \/ \E p \in ThreatLevelParams : GetProcedureEnemies(p)
  \/ \E p \in IncarnationParams : GetProcedureDoctor(p)

SpecQueries == InitQueries /\ [][NextQueries]_vars

\* The LLM route with and without the client, with and without a failing
\* database.
InitLlm ==
  /\ enemies = SeedEnemies
  /\ doctors = SeedDoctors
  /\ nextDoctorId = Cardinality(DoctorIds) + 1
  /\ companions = SeedCompanions
  /\ doctorCompanions = {}
  /\ enemyEpisodes = EnemyEpisodeRows
  /\ episodeLocations = EpisodeLocationRows
  /\ dbObjects = DatabaseObjects
  /\ dbFault \in {NoFault} \cup OtherFaults
  /\ openai \in BOOLEAN
  /\ nodeEnv = "production"
  /\ NoResponse

NextLlm == \E b \in LlmBodies, c \in CompletionOutcomes : PostLlmQuery(b, c)

SpecLlm == InitLlm /\ [][NextLlm]_vars

(***************************************************************************)
(* errorHandler with every kind of error, in every mode of NODE_ENV.       *)
(***************************************************************************)
MaxValidationItems == 2

\* The items of err.errors of a Sequelize error.
ValidationItems ==
  [path : {"incarnation_number", "actor_id"}, message : {"must be an integer"}]

ValidationItemLists ==
  UNION {[1..n -> ValidationItems] : n \in 0..MaxValidationItems}

ErrorValues ==
  {OtherError("SequelizeValidationError", <<"Validation error">>, items) :
     items \in ValidationItemLists}
  \cup {OtherError("SequelizeUniqueConstraintError", <<"Validation error">>, items) :
          items \in ValidationItemLists}
  \cup {NotFoundError("Doctor"), NotFoundError("Episode"),
        ValidationError(<<"Valid incarnation_number is required">>),
        BadRequestError(<<"Invalid id parameter">>),
        DatabaseError(<<"Failed to fetch Doctor">>),
        DatabaseError(<<"Database operation failed">>)}
  \cup {OtherError(name, message, <<>>) :
          name \in {"Error", "TypeError", "SequelizeForeignKeyConstraintError"},
          message \in {<<"Cannot read properties of undefined">>, <<>>}}

RequestUrls == {"/api/doctors", "/api/doctors/1"}

NodeEnvs == {"production", "development", "test"}

\* next(err): Express calls errorHandler(err, req, res, next).
HandleError(err, url) ==
  LET responses == errorHandler(err, url)
  IN /\ req' = [op |-> "errorHandler", err |-> err, url |-> url]
     /\ queries' = <<>>
     /\ status' = responses[1].statusCode
     /\ resBody' = [kind |-> "error", message |-> responses[1].message,
                    errors |-> responses[1].errors, path |-> responses[1].path]
     /\ resKeys' = responses[1].keys
     /\ responsesSent' = Len(responses)
     /\ UNCHANGED <<enemies, joinTables, nextDoctorId, environment, background>>

InitErrorHandler ==
  /\ enemies = SeedEnemies
  /\ doctors = SeedDoctors
  /\ nextDoctorId = Cardinality(DoctorIds) + 1
  /\ companions = SeedCompanions
  /\ doctorCompanions = {}
  /\ enemyEpisodes = EnemyEpisodeRows
  /\ episodeLocations = EpisodeLocationRows
  /\ dbObjects = DatabaseObjects
  /\ dbFault = NoFault
  /\ openai = TRUE
  /\ nodeEnv \in NodeEnvs
  /\ NoResponse

NextErrorHandler == \E err \in ErrorValues, url \in RequestUrls : HandleError(err, url)

SpecErrorHandler == InitErrorHandler /\ [][NextErrorHandler]_vars

(***************************************************************************)
(* Concurrent calls of QueryService.updateEnemyThreatLevel on one enemy.   *)
(* A call is two awaited statements, the UPDATE and the SELECT; statements *)
(* of different calls interleave.  queries is the log of the statements.   *)
(***************************************************************************)
NumCalls == 2

CallIds == 1..NumCalls

RacedEnemyId == CHOOSE e \in EnemyIds : \A f \in EnemyIds : e <= f

NoResult == [kind |-> "none"]

UpdateCalls ==
  {[pc |-> "start", enemyId |-> RacedEnemyId, newThreatLevel |-> JsNum(v), result |-> NoResult] :
     v \in ThreatLevels}

\* The UPDATE statement leaving the row as it was.
UpdateStep_NoWrite(c) ==
  /\ calls[c].pc = "start"
  /\ calls' = [calls EXCEPT ![c].pc = "updated"]
  /\ queries' = Append(queries, [statement |-> "UPDATE ENEMIES", call |-> c])
  /\ UNCHANGED <<enemies, joinTables, nextDoctorId, environment, response, fetch>>

\* await sequelize.query('UPDATE ENEMIES SET threat_level = :newThreatLevel
\*   WHERE enemy_id = :enemyId')
UpdateStep(c) ==
  LET call == calls[c]
      stored == DbThreatLevelColumn(call.newThreatLevel)
  IN /\ call.pc = "start"
     /\ IF ~stored.ok
          THEN /\ calls' = [calls EXCEPT ![c].pc = "threw"]
               /\ UNCHANGED enemies
          ELSE /\ calls' = [calls EXCEPT ![c].pc = "updated"]
               /\ enemies' = IF call.enemyId \in DOMAIN enemies
                               THEN [enemies EXCEPT ![call.enemyId] = stored.value]
                               ELSE enemies
     /\ queries' = Append(queries, [statement |-> "UPDATE ENEMIES", call |-> c])
     /\ UNCHANGED <<joinTables, nextDoctorId, environment, response, fetch>>

\* await sequelize.query('SELECT ... FROM ENEMIES e ... WHERE e.enemy_id = :enemyId'),
\* return results[0] or null
SelectStep(c) ==
  LET call == calls[c]
  IN /\ call.pc = "updated"
     /\ calls' = [calls EXCEPT ![c].pc = "done",
                               ![c].result =
                                 IF call.enemyId \in DOMAIN enemies
                                   THEN [kind |-> "enemy", enemy_id |-> call.enemyId,
                                         threat_level |-> enemies[call.enemyId]]
                                   ELSE [kind |-> "null"]]
     /\ queries' = Append(queries, [statement |-> "SELECT ENEMIES", call |-> c])
     /\ UNCHANGED <<enemies, joinTables, nextDoctorId, environment, response, fetch>>

\* Another client of the database deletes the enemy.
DeleteEnemy(enemyId) ==
  /\ enemyId \in DOMAIN enemies
  /\ enemies' = [e \in DOMAIN enemies \ {enemyId} |-> enemies[e]]
  /\ queries' = Append(queries, [statement |-> "DELETE ENEMIES", call |-> NULL])
  /\ UNCHANGED <<calls, joinTables, nextDoctorId, environment, response, fetch>>

InitUpdateRace ==
  /\ enemies = SeedEnemies
  /\ doctors = SeedDoctors
  /\ nextDoctorId = Cardinality(DoctorIds) + 1
  /\ EnvironmentReady
  /\ companions = SeedCompanions
  /\ doctorCompanions = {}
  /\ enemyEpisodes = EnemyEpisodeRows
  /\ episodeLocations = EpisodeLocationRows
  /\ req = NoRequest
  /\ status = 0
  /\ resBody = [kind |-> "none"]
  /\ queries = <<>>
  /\ responsesSent = 0
  /\ resKeys = {}
  /\ fetch = NoFetch
  /\ calls \in [CallIds -> UpdateCalls]

NextUpdateRace ==
  \/ \E c \in CallIds : UpdateStep(c)
  \/ \E c \in CallIds : SelectStep(c)

SpecUpdateRace == InitUpdateRace /\ [][NextUpdateRace]_vars

NextUpdateDeleteRace ==
  \/ \E c \in CallIds : UpdateStep(c)
  \/ \E c \in CallIds : SelectStep(c)
  \/ DeleteEnemy(RacedEnemyId)

SpecUpdateDeleteRace == InitUpdateRace /\ [][NextUpdateDeleteRace]_vars

(***************************************************************************)
(* Concurrent calls of BaseService.delete on the doctors.  A call is two   *)
(* awaited steps, getById and record.destroy; steps of different calls     *)
(* interleave.                                                             *)
(***************************************************************************)
DeleteCalls ==
  {[pc |-> "start", id |-> id, result |-> NoResult] :
     id \in DoctorIds \cup {FirstMissingId(DoctorIds)}}

\* const record = await this.getById(id)
GetByIdStep(c) ==
  LET found == BaseService_getById(doctors, calls[c].id)
  IN /\ calls[c].pc = "start"
     /\ calls' = IF found.error # ""
                   THEN [calls EXCEPT ![c].pc = "done",
                                      ![c].result = [kind |-> "threw", error |-> found.error]]
                   ELSE [calls EXCEPT ![c].pc = "found"]
     /\ queries' = Append(queries, [statement |-> "Doctor.findByPk", call |-> c])
     /\ UNCHANGED <<enemies, joinTables, nextDoctorId, environment, response, fetch>>

\* await record.destroy(): DELETE FROM DOCTOR WHERE doctor_id = :id, which
\* deletes no row and raises no error when the row is gone; then the call
\* returns its message.
DestroyStep(c) ==
  /\ calls[c].pc = "found"
  /\ doctors' = [i \in DOMAIN doctors \ {calls[c].id} |-> doctors[i]]
  /\ calls' = [calls EXCEPT ![c].pc = "done",
                            ![c].result = [kind |-> "deleted", error |-> ""]]
  /\ queries' = Append(queries, [statement |-> "record.destroy", call |-> c])
  /\ UNCHANGED <<enemies, companions, doctorCompanions, enemyEpisodes, episodeLocations,
                 nextDoctorId, environment, response, fetch>>

InitDeleteRace ==
  /\ enemies = SeedEnemies
  /\ doctors = SeedDoctors
  /\ nextDoctorId = Cardinality(DoctorIds) + 1
  /\ EnvironmentReady
  /\ companions = SeedCompanions
  /\ doctorCompanions = {}
  /\ enemyEpisodes = EnemyEpisodeRows
  /\ episodeLocations = EpisodeLocationRows
  /\ req = NoRequest
  /\ status = 0
  /\ resBody = [kind |-> "none"]
  /\ queries = <<>>
  /\ responsesSent = 0
  /\ resKeys = {}
  /\ fetch = NoFetch
  /\ calls \in [CallIds -> DeleteCalls]

NextDeleteRace ==
  \/ \E c \in CallIds : GetByIdStep(c)
  \/ \E c \in CallIds : DestroyStep(c)

SpecDeleteRace == InitDeleteRace /\ [][NextDeleteRace]_vars

(***************************************************************************)
(* One call of QueryService.getDoctorFullDetails, statement by statement,  *)
(* while another client inserts and deletes DOCTOR_COMPANIONS rows.        *)
(***************************************************************************)
DetailCallIds == {"getDoctorFullDetails"}

DetailCalls ==
  {[pc |-> "start", doctorId |-> d, companionRows |-> <<>>, episodeRows |-> <<>>,
    result |-> NoResult] : d \in DoctorIds \cup {FirstMissingId(DoctorIds)}}

\* The rows the other client writes: those of the first doctor and companion.
RacedDoctorCompanionRows ==
  {r \in DoctorCompanionRows :
     /\ r.doctor_id = (CHOOSE d \in DoctorIds : \A e \in DoctorIds : d <= e)
     /\ r.companion_id = (CHOOSE c \in CompanionIds : \A e \in CompanionIds : c <= e)}

\* const doctor = await Doctor.findByPk(doctorId, ...); if (!doctor) return null
FindDoctorStep(c) ==
  LET doctor == FindDoctorByPk(doctors, calls[c].doctorId)
  IN /\ calls[c].pc = "start"
     /\ calls' = IF DoctorMissing(doctor)
                   THEN [calls EXCEPT ![c].pc = "done", ![c].result = [kind |-> "null"]]
                   ELSE [calls EXCEPT ![c].pc = "doctor"]
     /\ queries' = Append(queries, "Doctor.findByPk")
     /\ UNCHANGED <<enemies, joinTables, nextDoctorId, environment, response, fetch>>

\* const companionQueryResult = await sequelize.query(...)
CompanionQueryStep(c) ==
  /\ calls[c].pc = "doctor"
  /\ calls' = [calls EXCEPT ![c].pc = "companions",
                            ![c].companionRows = CompanionQuery(calls[c].doctorId)]
  /\ queries' = Append(queries, "SELECT companions")
  /\ UNCHANGED <<enemies, joinTables, nextDoctorId, environment, response, fetch>>

\* const episodeQueryResult = await sequelize.query(...)
EpisodeQueryStep(c) ==
  /\ calls[c].pc = "companions"
  /\ calls' = [calls EXCEPT ![c].pc = "episodes",
                            ![c].episodeRows = EpisodeQuery(calls[c].doctorId)]
  /\ queries' = Append(queries, "SELECT episodes")
  /\ UNCHANGED <<enemies, joinTables, nextDoctorId, environment, response, fetch>>

\* The enemy and planet queries, if any, and the result built from the rows.
BuildResultStep(c) ==
  LET call == calls[c]
      episodeIds == Map(call.episodeRows, LAMBDA r : r.episode_id)
      linked == LinkQueriesNeeded(episodeIds)
      episodeEnemies == IF linked THEN EnemyQuery(episodeIds) ELSE <<>>
      episodePlanets == IF linked THEN PlanetQuery(episodeIds) ELSE <<>>
  IN /\ call.pc = "episodes"
     /\ calls' = [calls EXCEPT
                    ![c].pc = "done",
                    ![c].result =
                      [kind |-> "doctorDetails",
                       doctor_id |-> call.doctorId,
                       companions |-> Map(call.companionRows, CompanionEntry),
                       episodes |-> Map(call.episodeRows,
                                        LAMBDA e : EpisodeEntry(e, episodeEnemies, episodePlanets))]]
     /\ queries' = queries \o (IF linked THEN <<"SELECT enemies", "SELECT planets">> ELSE <<>>)
     /\ UNCHANGED <<enemies, joinTables, nextDoctorId, environment, response, fetch>>

\* Another client inserts a DOCTOR_COMPANIONS row.
InsertDoctorCompanion(row) ==
  /\ row \notin doctorCompanions
  /\ Cardinality(doctorCompanions) < MaxDoctorCompanionRows
  /\ doctorCompanions' = doctorCompanions \cup {row}
  /\ UNCHANGED <<enemies, doctors, companions, enemyEpisodes, episodeLocations, queries,
                 nextDoctorId, environment, response, background>>

\* Another client deletes a DOCTOR_COMPANIONS row.
DeleteDoctorCompanion(row) ==
  /\ row \in doctorCompanions
  /\ doctorCompanions' = doctorCompanions \ {row}
  /\ UNCHANGED <<enemies, doctors, companions, enemyEpisodes, episodeLocations, queries,
                 nextDoctorId, environment, response, background>>

InitDetailsRace ==
  /\ enemies = SeedEnemies
  /\ doctors = SeedDoctors
  /\ nextDoctorId = Cardinality(DoctorIds) + 1
  /\ EnvironmentReady
  /\ companions = SeedCompanions
  /\ doctorCompanions \in SubsetsUpTo(RacedDoctorCompanionRows, MaxDoctorCompanionRows)
  /\ enemyEpisodes = EnemyEpisodeRows
  /\ episodeLocations = EpisodeLocationRows
  /\ req = NoRequest
  /\ status = 0
  /\ resBody = [kind |-> "none"]
  /\ queries = <<>>
  /\ responsesSent = 0
  /\ resKeys = {}
  /\ fetch = NoFetch
  /\ calls \in [DetailCallIds -> DetailCalls]

NextDetailsRace ==
  \/ \E c \in DetailCallIds : FindDoctorStep(c)
  \/ \E c \in DetailCallIds : CompanionQueryStep(c)
  \/ \E c \in DetailCallIds : EpisodeQueryStep(c)
  \/ \E c \in DetailCallIds : BuildResultStep(c)
  \/ \E row \in RacedDoctorCompanionRows : InsertDoctorCompanion(row)
  \/ \E row \in RacedDoctorCompanionRows : DeleteDoctorCompanion(row)

SpecDetailsRace == InitDetailsRace /\ [][NextDetailsRace]_vars

(***************************************************************************)
(* scripts/seed-db.js, fetchAPI(url, retries).  fetch.live counts what is  *)
(* pending of the call: the timers set with setTimeout and the requests in *)
(* flight, by redirect hop and attempt.  A request is "sent" until its     *)
(* response arrives, "body" while a 200 response is read, and "hangup"     *)
(* after request.destroy() before any response, when Node emits 'error'    *)
(* (socket hang up) on the request.                                        *)
(***************************************************************************)
MaxRetries == 1
MAX_REDIRECTS == 5

FetchHops == 0..MAX_REDIRECTS

FetchAttempts == 0..MaxRetries

FetchItems ==
  [kind : {"timer", "sent", "hangup", "body"}, hop : FetchHops, attempt : FetchAttempts,
   target : {""}]
  \cup [kind : {"call"}, hop : FetchHops, attempt : {0}, target : {"other", "invalid"}]

Item(kind, hop, attempt) == [kind |-> kind, hop |-> hop, attempt |-> attempt, target |-> ""]

Put(f, item) == [f EXCEPT !.live[item] = @ + 1]

Take(f, item) == [f EXCEPT !.live[item] = @ - 1]

\* resolve(value): the first call settles the promise, later calls do nothing.
Resolve(f, value) == [f EXCEPT !.settled = IF @ = "pending" THEN value ELSE @]

\* attemptFetch(attempt): httpModule.request(...), request.end()
AttemptFetch(f, hop, attempt) ==
  [Put(f, Item("sent", hop, attempt)) EXCEPT !.requests[hop] = @ + 1]

\* if (attempt < retries) setTimeout(() => attemptFetch(attempt + 1), ...)
\* else resolve(null)
\* Each handler prints its own warning with console.warn.
RetryOrNull(f, hop, attempt, what) ==
  IF attempt < f.retries
    THEN [Put(f, Item("timer", hop, attempt + 1)) EXCEPT !.warning = <<what, "retrying">>]
    ELSE [Resolve(f, "null") EXCEPT !.warning = <<what, "gave up">>]

FetchOnly == <<enemies, joinTables, nextDoctorId, environment, response, queries, calls>>

\* fetchAPI(url, retries): the executor of the promise.
CallFetchAPI(url, retries) ==
  LET started == [pc |-> "running", url |-> url, retries |-> retries, settled |-> "pending",
                  requests |-> [h \in FetchHops |-> 0], warning |-> <<>>,
                  live |-> [i \in FetchItems |-> 0]]
  IN /\ fetch.pc = "idle"
     /\ fetch' = IF url = "" THEN Resolve(started, "null")
                 ELSE AttemptFetch(started, 0, 0)
     /\ UNCHANGED FetchOnly

\* A timer set by a handler fires: attemptFetch(attempt).
AttemptTimerFires(hop, attempt) ==
  /\ fetch.pc = "running"
  /\ fetch.live[Item("timer", hop, attempt)] > 0
  /\ fetch' = AttemptFetch(Take(fetch, Item("timer", hop, attempt)), hop, attempt)
  /\ UNCHANGED FetchOnly

\* The response is a redirect with a location: request.destroy(), then the
\* redirect is followed after a second, or the promise is resolved with null.
ResponseRedirect(hop, attempt, target) ==
  LET f == Take(fetch, Item("sent", hop, attempt))
  IN /\ fetch.pc = "running"
     /\ fetch.live[Item("sent", hop, attempt)] > 0
     /\ fetch' = [(IF target # "same" /\ hop < MAX_REDIRECTS
                      THEN Put(f, [kind |-> "call", hop |-> hop + 1, attempt |-> 0,
                                   target |-> target])
                      ELSE Resolve(f, "null"))
                   EXCEPT !.warning = <<"Redirect", target>>]
     /\ UNCHANGED FetchOnly

\* fetchAPI(redirectUrl, retries, redirectCount + 1).then(resolve).catch(() => resolve(null))
RedirectTimerFires(hop, target) ==
  LET item == [kind |-> "call", hop |-> hop, attempt |-> 0, target |-> target]
  IN /\ fetch.pc = "running"
     /\ fetch.live[item] > 0
     /\ fetch' = IF target = "invalid" THEN Resolve(Take(fetch, item), "null")
                 ELSE AttemptFetch(Take(fetch, item), hop, 0)
     /\ UNCHANGED FetchOnly

\* The response has another status than 200: request.destroy(), retry or null.
ResponseNot200(hop, attempt) ==
  /\ fetch.pc = "running"
  /\ fetch.live[Item("sent", hop, attempt)] > 0
  /\ fetch' = RetryOrNull(Take(fetch, Item("sent", hop, attempt)), hop, attempt, "HTTP status")
  /\ UNCHANGED FetchOnly

\* The response has status 200: its body is read.
Response200(hop, attempt) ==
  /\ fetch.pc = "running"
  /\ fetch.live[Item("sent", hop, attempt)] > 0
  /\ fetch' = Put(Take(fetch, Item("sent", hop, attempt)), Item("body", hop, attempt))
  /\ UNCHANGED FetchOnly

\* res.on('end'): the body is JSON, empty, or not JSON.
BodyEnd(hop, attempt, body) ==
  LET f == Take(fetch, Item("body", hop, attempt))
  IN /\ fetch.pc = "running"
     /\ fetch.live[Item("body", hop, attempt)] > 0
     /\ fetch' = IF body = "json" THEN Resolve(f, "json")
                 ELSE IF body = "empty" THEN RetryOrNull(f, hop, attempt, "Empty response")
                 ELSE RetryOrNull(f, hop, attempt, "Non-JSON response")
     /\ UNCHANGED FetchOnly

\* request.on('error') for a request that got no response.
NetworkError(hop, attempt) ==
  /\ fetch.pc = "running"
  /\ fetch.live[Item("sent", hop, attempt)] > 0
  /\ fetch' = RetryOrNull(Take(fetch, Item("sent", hop, attempt)), hop, attempt, "Network error")
  /\ UNCHANGED FetchOnly

\* request.setTimeout(15000, ...) before any response: retry or null, and
\* request.destroy(), after which the request emits 'error'.
TimeoutBeforeResponse(hop, attempt) ==
  /\ fetch.pc = "running"
  /\ fetch.live[Item("sent", hop, attempt)] > 0
  /\ fetch' = Put(RetryOrNull(Take(fetch, Item("sent", hop, attempt)), hop, attempt, "Timeout"),
                  Item("hangup", hop, attempt))
  /\ UNCHANGED FetchOnly

\* request.on('error') after the timeout handler destroyed the request.
ErrorAfterDestroy(hop, attempt) ==
  /\ fetch.pc = "running"
  /\ fetch.live[Item("hangup", hop, attempt)] > 0
  /\ fetch' = RetryOrNull(Take(fetch, Item("hangup", hop, attempt)), hop, attempt, "Network error")
  /\ UNCHANGED FetchOnly

\* The socket is idle for 15 s while the body is read: retry or null, and
\* request.destroy(); the response is aborted and no 'end' follows.
TimeoutInBody(hop, attempt) ==
  /\ fetch.pc = "running"
  /\ fetch.live[Item("body", hop, attempt)] > 0
  /\ fetch' = RetryOrNull(Take(fetch, Item("body", hop, attempt)), hop, attempt, "Timeout")
  /\ UNCHANGED FetchOnly

\* The connection closes while the body is read: the response emits 'aborted'
\* and 'close', for which no handler is registered; the request emits no 'error'.
PrematureClose(hop, attempt) ==
  /\ fetch.pc = "running"
  /\ fetch.live[Item("body", hop, attempt)] > 0
  /\ fetch' = Take(fetch, Item("body", hop, attempt))
  /\ UNCHANGED FetchOnly

FetchUrls == {"", "https://api.tvmaze.com/shows/210"}

InitFetch ==
  /\ enemies = SeedEnemies
  /\ doctors = SeedDoctors
  /\ nextDoctorId = Cardinality(DoctorIds) + 1
  /\ EnvironmentReady
  /\ companions = SeedCompanions
  /\ doctorCompanions = {}
  /\ enemyEpisodes = EnemyEpisodeRows
  /\ episodeLocations = EpisodeLocationRows
  /\ NoResponse

\* One call whose server never redirects.
NextFetch ==
  \/ \E url \in FetchUrls, retries \in FetchAttempts : CallFetchAPI(url, retries)
  \/ \E attempt \in FetchAttempts : AttemptTimerFires(0, attempt)
  \/ \E attempt \in FetchAttempts : ResponseNot200(0, attempt)
  \/ \E attempt \in FetchAttempts : Response200(0, attempt)
  \/ \E attempt \in FetchAttempts, body \in {"json", "empty", "text"} : BodyEnd(0, attempt, body)
  \/ \E attempt \in FetchAttempts : NetworkError(0, attempt)
  \/ \E attempt \in FetchAttempts : TimeoutBeforeResponse(0, attempt)
  \/ \E attempt \in FetchAttempts : ErrorAfterDestroy(0, attempt)
  \/ \E attempt \in FetchAttempts : TimeoutInBody(0, attempt)
  \/ \E attempt \in FetchAttempts : PrematureClose(0, attempt)

SpecFetch == InitFetch /\ [][NextFetch]_vars

\* One call whose server may redirect, and lets no request wait 15 s for the
\* start of its response.
NextFetchRedirect ==
  \/ \E url \in FetchUrls, retries \in FetchAttempts : CallFetchAPI(url, retries)
  \/ \E hop \in FetchHops, attempt \in FetchAttempts : AttemptTimerFires(hop, attempt)
  \/ \E hop \in FetchHops, attempt \in FetchAttempts, target \in {"same", "other", "invalid"} :
       ResponseRedirect(hop, attempt, target)
  \/ \E hop \in FetchHops, target \in {"other", "invalid"} : RedirectTimerFires(hop, target)
  \/ \E hop \in FetchHops, attempt \in FetchAttempts : ResponseNot200(hop, attempt)
  \/ \E hop \in FetchHops, attempt \in FetchAttempts : Response200(hop, attempt)
  \/ \E hop \in FetchHops, attempt \in FetchAttempts, body \in {"json", "empty", "text"} :
       BodyEnd(hop, attempt, body)
  \/ \E hop \in FetchHops, attempt \in FetchAttempts : NetworkError(hop, attempt)
  \/ \E hop \in FetchHops, attempt \in FetchAttempts : TimeoutInBody(hop, attempt)
  \/ \E hop \in FetchHops, attempt \in FetchAttempts : PrematureClose(hop, attempt)

\* Every timer fires and every request in flight meets its response, its
\* error, its close or its 15 s timeout.
SpecFetchFair == InitFetch /\ [][NextFetchRedirect]_vars /\ WF_vars(NextFetchRedirect)

(***************************************************************************)
(* C1: after any sequence of threat-level PUT requests every stored        *)
(* threat_level is in 1..10, and a request whose threat_level is 0, 11 or  *)
(* not a number is answered 400 without the UPDATE statement being issued. *)
(***************************************************************************)
NonNumeric(v) == v.kind # "num" /\ ~(v.kind = "str" /\ v.str \in DOMAIN NumericStrings)

C1_RejectedBeforeUpdate ==
  /\ \A e \in DOMAIN enemies : enemies[e] >= THREAT_LEVEL_MIN /\ enemies[e] <= THREAT_LEVEL_MAX
  /\ (req.op = "putThreatLevel" /\ ~ParseInt(req.param).nan
        /\ (req.body = JsNum(0) \/ req.body = JsNum(11) \/ NonNumeric(req.body)))
       => (status = HTTP_BAD_REQUEST /\ queries = <<>>)

(***************************************************************************)
(* C2: a threat-level PUT whose threat_level is a number outside 1..10 is  *)
(* answered 400 and leaves every stored threat_level as it was.            *)
(***************************************************************************)
OutOfRange(v) ==
  LET n == JsToNumber(v)
  IN ~n.nan /\ (n.num < THREAT_LEVEL_MIN \/ n.num > THREAT_LEVEL_MAX
                 \/ (n.num = THREAT_LEVEL_MAX /\ n.half))

C2_OutOfRangeIs400 ==
  [][(req'.op = "putThreatLevel" /\ OutOfRange(req'.body))
       => (status' = HTTP_BAD_REQUEST /\ enemies' = enemies)]_vars

C2_Witness ==
  /\ req.op = "putThreatLevel" /\ req.param = PathInt(1) /\ req.body = JsNum(11)
  /\ status = HTTP_BAD_REQUEST

(***************************************************************************)
(* C3: for an integer level v in 1..10 the update of an existing enemy     *)
(* stores v and answers 200 with that enemy's record, threat_level = v;    *)
(* for an id with no row it answers 404 and no row is created or changed.  *)
(***************************************************************************)
ValidLevel(v) ==
  v.kind = "num" /\ ~v.half /\ v.num >= THREAT_LEVEL_MIN /\ v.num <= THREAT_LEVEL_MAX

C3_ValidUpdate ==
  [][(req'.op = "putThreatLevel" /\ ValidLevel(req'.body) /\ ~ParseInt(req'.param).nan)
       => LET id == ParseInt(req'.param).num
              v == req'.body.num
          IN IF id \in DOMAIN enemies
               THEN /\ status' = HTTP_OK
                    /\ resBody' = [kind |-> "enemy", enemy_id |-> id, threat_level |-> v]
                    /\ enemies' = [enemies EXCEPT ![id] = v]
               ELSE /\ status' = HTTP_NOT_FOUND
                    /\ enemies' = enemies]_vars

C3_Witness ==
  /\ req.op = "putThreatLevel" /\ ValidLevel(req.body) /\ status = HTTP_OK
  /\ resBody.kind = "enemy" /\ resBody.threat_level = req.body.num
  /\ enemies[resBody.enemy_id] = req.body.num

(***************************************************************************)
(* Shorthands for the response of GET /api/queries/join/doctor/:id.        *)
(***************************************************************************)
JoinAnswered == req.op = "getJoinDoctor"
JoinOk == JoinAnswered /\ status = HTTP_OK /\ resBody.kind = "doctorDetails"
RowsOfDoctor(d) == {dc \in doctorCompanions : dc.doctor_id = d}
SeqIds(s, F(_)) == {F(s[i]) : i \in 1..Len(s)}

(***************************************************************************)
(* C4: for every existing doctor the episodes list holds exactly one entry *)
(* for each distinct episode that is the start or the end episode of one   *)
(* of that doctor's DoctorCompanion rows, and no other episode; the        *)
(* doctor's own first and last episode are listed only when such a row     *)
(* references them.                                                        *)
(***************************************************************************)
C4_EpisodesAreCompanionEpisodes ==
  (JoinAnswered /\ MySqlNumber(req.param) \in DOMAIN doctors)
    => /\ JoinOk
       /\ LET d == MySqlNumber(req.param)
              referenced == ({dc.start_episode_id : dc \in RowsOfDoctor(d)}
                               \cup {dc.end_episode_id : dc \in RowsOfDoctor(d)}) \ {NULL}
          IN /\ SeqIds(resBody.episodes, LAMBDA e : e.episode_id) = referenced
             /\ Len(resBody.episodes) = Cardinality(referenced)

C4_Witness ==
  /\ JoinOk
  /\ Len(resBody.episodes) = 1
  /\ Cardinality(RowsOfDoctor(resBody.doctor_id)) = 2
  /\ resBody.doctor.first_episode_id # NULL
  /\ resBody.doctor.first_episode_id \notin SeqIds(resBody.episodes, LAMBDA e : e.episode_id)

(***************************************************************************)
(* C5: for a doctor with no DoctorCompanion row the result has empty       *)
(* companions and episodes lists, whatever the doctor's first and last     *)
(* episode are, and neither the enemy nor the planet query is issued.      *)
(***************************************************************************)
C5_NoCompanionsNoEpisodes ==
  (JoinOk /\ RowsOfDoctor(resBody.doctor_id) = {})
    => /\ resBody.companions = <<>>
       /\ resBody.episodes = <<>>
       /\ \A i \in 1..Len(queries) : queries[i] \notin {"SELECT enemies", "SELECT planets"}

C5_Witness ==
  /\ JoinOk /\ RowsOfDoctor(resBody.doctor_id) = {}
  /\ resBody.doctor.first_episode_id # NULL /\ resBody.doctor.last_episode_id # NULL
  /\ doctorCompanions # {} /\ enemyEpisodes # {}
  /\ resBody.episodes = <<>>

(***************************************************************************)
(* C6: every episode entry of the result carries an enemies and a planets  *)
(* list; the enemies list holds exactly the EnemyEpisode rows of that      *)
(* episode and the planets list exactly its EpisodeLocation rows, and both *)
(* are empty lists when the episode has no such rows.                      *)
(***************************************************************************)
C6_EpisodeLinksFiltered ==
  JoinOk =>
    \A i \in 1..Len(resBody.episodes) :
      LET entry == resBody.episodes[i]
          ees == {ee \in enemyEpisodes : ee.episode_id = entry.episode_id}
          els == {el \in episodeLocations : el.episode_id = entry.episode_id}
      IN /\ {"enemies", "planets"} \subseteq DOMAIN entry
         /\ Len(entry.enemies) = Cardinality(ees)
         /\ SeqIds(entry.enemies, LAMBDA en : en.enemy_id) = {ee.enemy_id : ee \in ees}
         /\ \A k \in 1..Len(entry.enemies) :
              entry.enemies[k].threat_level = enemies[entry.enemies[k].enemy_id]
         /\ Len(entry.planets) = Cardinality(els)
         /\ SeqIds(entry.planets, LAMBDA pl : pl.planet_id) = {el.planet_id : el \in els}

C6_Witness ==
  /\ JoinOk
  /\ \E i, j \in 1..Len(resBody.episodes) :
       /\ Len(resBody.episodes[i].enemies) = 1 /\ Len(resBody.episodes[i].planets) = 1
       /\ resBody.episodes[j].enemies = <<>> /\ resBody.episodes[j].planets = <<>>
  /\ Len(resBody.companions) = 1

(***************************************************************************)
(* C7: no companion_id appears more than once in the companions list of    *)
(* the result, also when the doctor has several DoctorCompanion rows for   *)
(* the same companion with different start or end episodes.                *)
(***************************************************************************)
C7_CompanionsDeduplicated ==
  JoinOk =>
    \A i, j \in 1..Len(resBody.companions) :
      resBody.companions[i].companion_id = resBody.companions[j].companion_id => i = j

(***************************************************************************)
(* C8: every DoctorCompanion row of the doctor is listed in companions,    *)
(* its species is null exactly when the companion has no species and its   *)
(* homePlanet is null exactly when the companion has no home planet; the   *)
(* request of an existing doctor is answered 200.                          *)
(***************************************************************************)
C8_OptionalRelationsNull ==
  (JoinAnswered /\ MySqlNumber(req.param) \in DOMAIN doctors)
    => /\ JoinOk
       /\ SeqIds(resBody.companions,
                 LAMBDA c : <<c.companion_id, c.start_episode_id, c.end_episode_id>>)
            = {<<dc.companion_id, dc.start_episode_id, dc.end_episode_id>> :
                 dc \in RowsOfDoctor(MySqlNumber(req.param))}
       /\ \A i \in 1..Len(resBody.companions) :
            LET c == resBody.companions[i]
            IN /\ c.species.isNull <=> (companions[c.companion_id].species_id = NULL)
               /\ c.homePlanet.isNull <=> (companions[c.companion_id].home_planet_id = NULL)
               /\ ~c.species.isNull => c.species.species_id = companions[c.companion_id].species_id
               /\ ~c.homePlanet.isNull
                    => c.homePlanet.planet_id = companions[c.companion_id].home_planet_id

C8_Witness ==
  /\ JoinOk
  /\ \E i \in 1..Len(resBody.companions) :
       /\ resBody.companions[i].species.isNull
       /\ ~resBody.companions[i].homePlanet.isNull
  /\ \E i \in 1..Len(resBody.companions) :
       /\ ~resBody.companions[i].species.isNull
       /\ resBody.companions[i].homePlanet.isNull

(***************************************************************************)
(* C9: for a doctorId with no Doctor row getDoctorFullDetails returns the  *)
(* not-found value after the doctor lookup alone, with no companion,       *)
(* episode, enemy or planet query issued, and the route answers 404.       *)
(***************************************************************************)
C9_MissingDoctorIs404 ==
  (JoinAnswered /\ MySqlNumber(req.param) \notin DOMAIN doctors)
    => /\ status = HTTP_NOT_FOUND
       /\ queries = <<"Doctor.findByPk">>

C9_Witness ==
  /\ JoinAnswered /\ req.param = PathInt(FirstMissingId(DoctorIds))
  /\ status = HTTP_NOT_FOUND
  /\ doctorCompanions # {}
(***************************************************************************)
(* C10: after createDoctor succeeds with incarnation number n and          *)
(* catchphrase c, a getById on the id of the created row that follows      *)
(* immediately succeeds and returns that n and that c.                     *)
(***************************************************************************)
C10_CreateThenGetById ==
  [][(/\ req.op = "postDoctor" /\ status = HTTP_CREATED
      /\ req.body.catchphrase.kind = "str"
      /\ req'.op = "getDoctor" /\ req'.param = PathInt(resBody.doctor_id))
       => /\ status' = HTTP_OK
          /\ resBody'.kind = "doctor"
          /\ resBody'.doctor_id = resBody.doctor_id
          /\ JsNum(resBody'.row.incarnation_number) = req.body.incarnation_number
          /\ resBody'.row.catchphrase = req.body.catchphrase]_vars

\* A getById has answered with the row the last create made.
C10_Witness ==
  /\ req.op = "getDoctor" /\ status = HTTP_OK
  /\ resBody.doctor_id = nextDoctorId - 1
  /\ Cardinality(DOMAIN doctors) = MaxDoctorRows
  /\ resBody.row.catchphrase.kind = "str"

(***************************************************************************)
(* C11: a delete of an id whose row has been deleted (the id was given out *)
(* and has no row; ids are never given out twice) answers 404 NotFound,    *)
(* not success, and leaves the table as it was; a delete that succeeds     *)
(* removes the row.                                                        *)
(***************************************************************************)
C11_SecondDeleteNotFound ==
  [][(req'.op = "deleteDoctor" /\ validateId(req'.param).ok)
       => LET id == validateId(req'.param).id
          IN /\ status' = HTTP_OK => (id \in DOMAIN doctors /\ id \notin DOMAIN doctors')
             /\ (id < nextDoctorId /\ id \notin DOMAIN doctors)
                  => /\ status' = HTTP_NOT_FOUND
                     /\ resBody' = [kind |-> "error", error |-> "NotFoundError"]
                     /\ doctors' = doctors]_vars

\* A delete of a deleted id has been answered, with another row still stored.
C11_Witness ==
  /\ req.op = "deleteDoctor" /\ status = HTTP_NOT_FOUND
  /\ validateId(req.param).id < nextDoctorId
  /\ validateId(req.param).id \notin DOMAIN doctors
  /\ DOMAIN doctors # {}

(***************************************************************************)
(* C12: an update of an existing row that succeeds changes exactly the     *)
(* fields its body names and no other field and no other row; an update of *)
(* an id with no row answers 404 and changes nothing; a body holding only  *)
(* a catchphrase passes validation and is answered 200.                    *)
(***************************************************************************)
C12_UpdateChangesNamedFields ==
  [][(req'.op = "putDoctor" /\ validateId(req'.param).ok)
       => LET id == validateId(req'.param).id
              b == req'.body
          IN /\ (id \notin DOMAIN doctors /\ validateDoctorData("PUT", b))
                  => (status' = HTTP_NOT_FOUND /\ doctors' = doctors)
             /\ status' # HTTP_OK => doctors' = doctors
             /\ (id \in DOMAIN doctors /\ b.incarnation_number = JsUndefined
                   /\ b.actor_id = JsUndefined /\ b.catchphrase.kind = "str")
                  => status' = HTTP_OK
             /\ status' = HTTP_OK
                  => /\ id \in DOMAIN doctors /\ DOMAIN doctors' = DOMAIN doctors
                     /\ \A o \in DOMAIN doctors \ {id} : doctors'[o] = doctors[o]
                     /\ JsNum(doctors'[id].incarnation_number) =
                          IF b.incarnation_number = JsUndefined
                            THEN JsNum(doctors[id].incarnation_number) ELSE b.incarnation_number
                     /\ JsNum(doctors'[id].actor_id) =
                          IF b.actor_id = JsUndefined
                            THEN JsNum(doctors[id].actor_id) ELSE b.actor_id
                     /\ doctors'[id].catchphrase =
                          IF b.catchphrase = JsUndefined
                            THEN doctors[id].catchphrase ELSE b.catchphrase
                     /\ doctors'[id].first_episode_id = doctors[id].first_episode_id
                     /\ doctors'[id].last_episode_id = doctors[id].last_episode_id]_vars

\* An update naming only the incarnation number has been answered 200 for a
\* row that keeps its catchphrase, with another row stored.
C12_Witness ==
  /\ req.op = "putDoctor" /\ status = HTTP_OK
  /\ req.body.catchphrase = JsUndefined /\ req.body.actor_id = JsUndefined
  /\ req.body.incarnation_number # JsUndefined
  /\ doctors[validateId(req.param).id].catchphrase.kind = "str"
  /\ Cardinality(DOMAIN doctors) = MaxDoctorRows

(***************************************************************************)
(* C13: DELETE /api/doctors/:id on an existing doctor removes the row and  *)
(* answers 204 with no content; on an id with no row it answers 404.       *)
(***************************************************************************)
C13_DeleteAnswers204 ==
  (req.op = "deleteDoctor" /\ validateId(req.param).ok)
    => /\ validateId(req.param).id \notin DOMAIN doctors
       /\ \/ status = HTTP_NOT_FOUND
          \/ status = HTTP_NO_CONTENT /\ resBody = [kind |-> "noContent"]

(***************************************************************************)
(* C14: POST /api/doctors answers 201 only when incarnation_number and     *)
(* actor_id are both positive integers; otherwise it answers 422 and the   *)
(* create operation is not invoked, so no row is inserted.                 *)
(***************************************************************************)
PositiveInteger(v) == v.kind = "num" /\ ~v.half /\ v.num > 0

C14_CreateNeedsPositiveIntegers ==
  (req.op = "postDoctor"
     /\ ~(PositiveInteger(req.body.incarnation_number) /\ PositiveInteger(req.body.actor_id)))
    => /\ status = HTTP_UNPROCESSABLE_ENTITY
       /\ queries = <<>>

(***************************************************************************)
(* C15: on the /:id routes an id that is not a positive integer is         *)
(* answered 400 and the service is not invoked; an accepted id reaches the *)
(* service as the integer the caller wrote.                                *)
(***************************************************************************)
C15_IdIsPositiveInteger ==
  req.op \in {"getDoctor", "putDoctor", "deleteDoctor"}
    => IF req.param.kind = "int" /\ req.param.num > 0
         THEN (status = HTTP_OK /\ resBody.kind = "doctor")
                 => resBody.doctor_id = req.param.num
         ELSE status = HTTP_BAD_REQUEST /\ queries = <<>>

(***************************************************************************)
(* C16: a create whose incarnation_number is that of a stored Doctor is    *)
(* answered 409 Conflict, and no second row with that number is stored.    *)
(***************************************************************************)
C16_DuplicateIncarnationIs409 ==
  [][(/\ req'.op = "postDoctor"
      /\ PositiveInteger(req'.body.incarnation_number)
      /\ PositiveInteger(req'.body.actor_id)
      /\ \E d \in DOMAIN doctors :
            doctors[d].incarnation_number = req'.body.incarnation_number.num)
       => (status' = HTTP_CONFLICT /\ doctors' = doctors)]_vars

(***************************************************************************)
(* C17: GET /view/doctor-summary and /view/enemy-summary while the view    *)
(* has not been created answer 500 with a message that names the missing   *)
(* view and the remediation command; any other database failure is         *)
(* answered with its own message.                                          *)
(***************************************************************************)
ViewOfRequest ==
  IF req.op = "getDoctorSummary" THEN DoctorSummaryView ELSE EnemySummaryView

NumberInThreatRange(p) ==
  p.kind = "int" /\ p.num >= THREAT_LEVEL_MIN /\ p.num <= THREAT_LEVEL_MAX

C18_EnemiesByThreatLevel ==
  (req.op = "getProcedureEnemies" /\ dbFault = NoFault /\ EnemiesProcedure \in dbObjects)
    => IF NumberInThreatRange(req.param)
         THEN /\ status = HTTP_OK
              /\ queries = <<"CALL GetEnemiesByThreatLevel">>
              /\ {resBody.rows[i].enemy_id : i \in 1..Len(resBody.rows)} =
                   {e \in DOMAIN enemies : enemies[e] >= req.param.num}
              /\ \A i \in 1..Len(resBody.rows) :
                   resBody.rows[i].threat_level = enemies[resBody.rows[i].enemy_id]
              /\ \A i, j \in 1..Len(resBody.rows) :
                   i < j => /\ resBody.rows[i].threat_level >= resBody.rows[j].threat_level
                            /\ resBody.rows[i].enemy_id # resBody.rows[j].enemy_id
         ELSE status = HTTP_BAD_REQUEST /\ queries = <<>>

(***************************************************************************)
(* C19: getEpisodesForDoctor(incarnationNumber) returns exactly the        *)
(* episodes that are the start or end episode of a DoctorCompanion row of  *)
(* that doctor (the join of getDoctorFullDetails), each once, ordered by   *)
(* air date ascending.                                                     *)
(***************************************************************************)
C19_EpisodesForDoctorAreCompanionEpisodes ==
  (req.op = "getProcedureDoctor" /\ status = HTTP_OK)
    => /\ {resBody.rows[i].episode_id : i \in 1..Len(resBody.rows)} =
            {e \in EpisodeIds :
               \E doc \in DOMAIN doctors :
                 /\ doctors[doc].incarnation_number = ParseInt(req.param).num
                 /\ \E i \in 1..Len(EpisodeQuery(doc)) : EpisodeQuery(doc)[i].episode_id = e}
       /\ \A i, j \in 1..Len(resBody.rows) :
            i < j => /\ resBody.rows[i].air_date <= resBody.rows[j].air_date
                     /\ resBody.rows[i].episode_id # resBody.rows[j].episode_id

CompletionFailed ==
  /\ req.op = "postLlmQuery"
  /\ Includes(queries, LlmCompletionCall)
  /\ req.completion.threw

C22_ResponseEnvelope ==
  responsesSent > 0 =>
    IF status >= HTTP_BAD_REQUEST
      THEN /\ {"status", "statusCode", "message", "timestamp", "path"} \subseteq resKeys
           /\ status = HTTP_UNPROCESSABLE_ENTITY => "errors" \in resKeys
      ELSE {"status", "data"} \subseteq resKeys

\* C24: an error passed to errorHandler gets exactly one response: 422 with the
\* {field, message} list of a Sequelize validation error, 409 for a
\* unique-constraint error, the statusCode of an AppError, 500 for anything
\* else; a stack trace is sent only outside production, and in production the
\* message of an unknown error is the generic one.
C24_ErrorHandlerResponse ==
  req.op = "errorHandler" =>
    /\ responsesSent = 1
    /\ status = (IF req.err.name = "SequelizeValidationError" THEN 422
                 ELSE IF req.err.name = "SequelizeUniqueConstraintError" THEN 409
                 ELSE IF req.err.appError THEN req.err.statusCode
                 ELSE 500)
    /\ req.err.name = "SequelizeValidationError" =>
         /\ "errors" \in resKeys
         /\ Len(resBody.errors) = Len(req.err.errors.list)
         /\ \A i \in DOMAIN resBody.errors :
              resBody.errors[i] = [field |-> req.err.errors.list[i].path,
                                   message |-> req.err.errors.list[i].message]
    /\ "stack" \in resKeys => nodeEnv # "production"
    /\ (nodeEnv = "production" /\ ~req.err.appError
          /\ req.err.name \notin {"SequelizeValidationError", "SequelizeUniqueConstraintError"})
         => resBody.message = <<"An unexpected error occurred">>

\* A NotFoundError answered 404 with its stack trace in development mode.
C24_Witness ==
  /\ req.op = "errorHandler"
  /\ nodeEnv = "development"
  /\ req.err = NotFoundError("Doctor")
  /\ status = 404
  /\ "stack" \in resKeys
  /\ responsesSent = 1

\* C23: for an existing episode the doctors of getEpisodeWithAllDetails are the
\* doctors with a DOCTOR_COMPANIONS row that starts or ends at the episode; for
\* a missing episode the answer is 404 and the doctor query is not issued.
C23_EpisodeDoctors ==
  req.op = "getJoinEpisode" =>
    LET episodeId == MySqlNumber(req.param)
    IN IF episodeId \in EpisodeIds
         THEN /\ status = HTTP_OK
              /\ \A d \in DOMAIN doctors :
                   (\E i \in DOMAIN resBody.doctors : resBody.doctors[i].doctor_id = d)
                     <=> (\E dc \in doctorCompanions :
                            /\ dc.doctor_id = d
                            /\ (dc.start_episode_id = episodeId \/ dc.end_episode_id = episodeId))
         ELSE /\ status = HTTP_NOT_FOUND
              /\ \A i \in DOMAIN queries : queries[i] # "Doctor.findAll"

\* C25: with two concurrent valid updateEnemyThreatLevel calls on one enemy,
\* the stored threat_level is in 1..10 in every state, and once every call has
\* completed it is the value written by the UPDATE statement that ran last.
UpdatesLogged == SelectSeq(queries, LAMBDA q : q.statement = "UPDATE ENEMIES")

C25_LastWriterWins ==
  calls # NoCalls =>
    /\ enemies[RacedEnemyId] \in 1..10
    /\ (\A c \in CallIds : calls[c].pc = "done") =>
         enemies[RacedEnemyId] =
           calls[UpdatesLogged[Len(UpdatesLogged)].call].newThreatLevel.num

\* Both calls completed, their UPDATE statements first and with different
\* values, the call that updated last reading first.
C25_Witness ==
  /\ calls # NoCalls
  /\ \A c \in CallIds : calls[c].pc = "done"
  /\ Len(queries) = 4
  /\ queries[1].statement = "UPDATE ENEMIES"
  /\ queries[2].statement = "UPDATE ENEMIES"
  /\ queries[3].call = queries[2].call
  /\ calls[queries[1].call].newThreatLevel # calls[queries[2].call].newThreatLevel
  /\ enemies[RacedEnemyId] = calls[queries[2].call].newThreatLevel.num

\* C26: the record a call updateEnemyThreatLevel(enemyId, v) returns has
\* threat_level = v, whatever other update or delete ran between its UPDATE
\* statement and its SELECT statement.
C26_ReturnedRecordHasValue ==
  calls # NoCalls =>
    \A c \in CallIds :
      (calls[c].pc = "done" /\ calls[c].result.kind = "enemy")
        => calls[c].result.threat_level = calls[c].newThreatLevel.num

\* C27: of two concurrent delete(id) calls on the same existing row at most
\* one reports success, and the other signals NotFound.
C27_OneDeleteSucceeds ==
  calls # NoCalls =>
    \A c, d \in CallIds :
      (/\ c # d
       /\ calls[c].id = calls[d].id
       /\ calls[c].id \in DoctorIds
       /\ calls[c].pc = "done"
       /\ calls[d].pc = "done"
       /\ calls[c].result.kind = "deleted")
        => (calls[d].result.kind = "threw" /\ calls[d].result.error = "NotFoundError")

\* C28: in every result of getDoctorFullDetails each start_episode_id and
\* end_episode_id of companions that is not null is the episode_id of an entry
\* of episodes, also when DOCTOR_COMPANIONS rows of the doctor are inserted or
\* deleted between the companion query and the episode query.
C28_CompanionEpisodesListed ==
  calls # NoCalls =>
    \A c \in DOMAIN calls :
      (calls[c].pc = "done" /\ calls[c].result.kind = "doctorDetails") =>
        LET r == calls[c].result
            Listed(e) == e # NULL => \E j \in DOMAIN r.episodes : r.episodes[j].episode_id = e
        IN \A i \in DOMAIN r.companions :
             /\ Listed(r.companions[i].start_episode_id)
             /\ Listed(r.companions[i].end_episode_id)

\* C29: a fetchAPI(url, retries) call that meets no redirect issues at most
\* retries + 1 HTTP requests, also when the timeout handler's request.destroy()
\* makes the error handler fire for the same attempt.
C29_AtMostRetriesPlusOneRequests ==
  fetch.pc = "running" => fetch.requests[0] <= fetch.retries + 1

\* C30: every fetchAPI call eventually settles, resolved with the JSON of a 200
\* response or with null.
C30_EventuallySettles ==
  (fetch.pc = "running") ~> (fetch.pc = "running" /\ fetch.settled \in {"json", "null"})

====
